---- MODULE Spec2Model ----
(***************************************************************************)
(* Bang Gang: the game registry and state machine of src/src/gameManager.ts *)
(* with the economy and chamber primitives of src/src/game.ts.              *)
(*                                                                         *)
(* Game objects live in a heap of slots so that the registry (channelId ->  *)
(* Game) and the suspended handleAction calls share them by reference, as   *)
(* the JavaScript objects are shared.  handleAction is an async function:   *)
(* it runs without interruption up to its awaited notification callback,    *)
(* and any other operation may run before it resumes.  On the duration      *)
(* ceiling path the call still has a registry deletion to do when it        *)
(* resumes, so it stays in pending; on every other path nothing follows     *)
(* the await but the return, so the call is over, as far as the registry    *)
(* and the Game go, when it suspends.                                       *)
(* last is the most recent successful operation: the Game it acted on and   *)
(* that Game's state after it, what it passed to the callback and what it   *)
(* returned.  A Game that the registry no longer holds is never changed     *)
(* again and is freed; a suspended call keeps the slot reserved.            *)
(*                                                                         *)
(* Amounts are in units of 10^12 wei.  Indexes are 0-based as in the code,  *)
(* sequences are 1-based: alivePlayers[currentTurnIndex] of the code is     *)
(* alivePlayers[currentTurnIndex + 1] here.  alivePlayers holds references  *)
(* to the Player objects of players: here, their positions in players.      *)
(***************************************************************************)
EXTENDS Integers, Sequences, FiniteSets, TLC

(* ---------------- configuration (GameConfig) ---------------- *)
minPlayers == 2
maxPlayers == 3
rakePercent == 10
passPenalty == 150
bonusFromB == 150
maxSafeShots == 2
maxGameDurationMinutes == 30
chambers == 6

(* ---------------- bounds of the model ---------------- *)
MaxPending == 1
MaxNow == 30
MaxPasses == 2
MaxAmount == 120
MaxTimers == 2
\* the seconds of a turn in the auto-shoot variant (10 in DEFAULT_CONFIG):
\* enough for a countdown that notifies once
turnTimerSeconds == 2

Channels == {"c1"}
Ids == {"a", "A", "b"}
\* the callers of the table specification: one more than the seats
Visitors == Ids \cup {"c"}

\* the tips tried for each sender
Amounts(u) == IF u = "b" THEN {15, 1000} ELSE {1000}
Actions == {"shoot", "pass"}
BulletPositions == 0..5
Slots == 1..(Cardinality(Channels) + MaxPending + 1)
RakePercents == 0..100
\* the tip of every sender of the auto-shoot variant
EntryAuto == 1000
\* the bullet positions drawn in the auto-shoot variant: the first chamber and
\* another one
BulletsAuto == {0, 1}

(* ---------------- values ---------------- *)
Freed == [state |-> "freed"]
NaN == -1
Undefined == -1
NoWinner == "none"

\* String.prototype.toLowerCase on the identities of the model
toLowerCase(s) ==
    CASE s = "A" -> "a"
      [] s = "B" -> "b"
      [] OTHER -> s

VARIABLES
    games,      \* the registry: channelId -> slot of its Game, 0 when absent
    heap,       \* slot -> Game object, or Freed
    pending,    \* handleAction calls suspended in the callback of the duration ceiling
    last,       \* the most recent successful operation and its result
    now,        \* wall clock, in minutes
    dist,       \* input and output of the last calculateEntryDistribution call
    timers,     \* auto-shoot variant: the pending timeouts and the running intervals
    starts      \* auto-shoot variant: the /start handlers that have yet to start the timer

vars == <<games, heap, pending, last, now, dist, timers, starts>>

(* ---------------- economy and chamber primitives ---------------- *)
\* BigInt division truncates; amounts are never negative, so \div agrees
\* mutant: the division is done before the multiplication
calculateEntryDistribution_DivideFirst(entryAmount, pct) ==
    LET rake == (entryAmount \div 100) * pct
    IN [rake |-> rake, toPoolA |-> entryAmount - rake]

calculateEntryDistribution(entryAmount, pct) ==
    LET rake == (entryAmount * pct) \div 100
    IN [rake |-> rake, toPoolA |-> entryAmount - rake]

checkChamber(game) == game.gunChamber /= NaN /\ game.gunChamber = game.bulletChamber

\* (gunChamber + 1) % game.chambers: Game has no chambers field, so the
\* modulus is undefined and the remainder is NaN
\* mutant: the bullet is moved, not the chamber
advanceChamber_MovesBullet(game) == [game EXCEPT !.bulletChamber = (@ + 1) % chambers]

advanceChamber(game) == [game EXCEPT !.gunChamber = NaN]

resetGun(game, bullet) == [game EXCEPT !.gunChamber = 0, !.bulletChamber = bullet]

(* ---------------- heap ---------------- *)
Referenced(gs) == {gs[c] : c \in Channels} \ {0}

Collect(h, gs) ==
    [i \in Slots |-> IF i \in Referenced(gs) THEN h[i] ELSE Freed]

Reserved == {pending[k].game : k \in 1..Len(pending)}

IsFree(i) == heap[i] = Freed /\ i \notin Reserved

FreeSlot == CHOOSE i \in Slots : IsFree(i) /\ \A j \in Slots : IsFree(j) => i <= j

Lookup(c) == IF games[c] = 0 THEN Freed ELSE heap[games[c]]

Msg(kind, user, winner, amount) ==
    [kind |-> kind, user |-> user, winner |-> winner, amount |-> amount]

NoMsg == Msg("none", "", NoWinner, 0)

\* callbacks: how many times the operation invoked the notification callback
Last(op, slot, state, cbMsg, retMsg) ==
    [op |-> op, game |-> slot, state |-> state, cbMsg |-> cbMsg, retMsg |-> retMsg,
     callbacks |-> 0]

(* ---------------- Init ---------------- *)
DistCall(amount, pct) ==
    [amount |-> amount, rakePercent |-> pct, returned |-> FALSE, rake |-> 0, toPoolA |-> 0]

NoDist == DistCall(0, 0)

Init ==
    /\ games = [c \in Channels |-> 0]
    /\ heap = [i \in Slots |-> Freed]
    /\ pending = <<>>
    /\ last = Last("none", 0, "none", NoMsg, NoMsg)
    /\ now = 0
    /\ dist = NoDist
    /\ timers = {}
    /\ starts = {}

(* ---------------- createGame ---------------- *)
NewGame(c, bullet, t) ==
    [channelId |-> c, state |-> "waiting", players |-> <<>>, alivePlayers |-> <<>>,
     currentTurnIndex |-> 0, poolA |-> 0, poolB |-> 0, houseRake |-> 0,
     gunChamber |-> 0, bulletChamber |-> bullet, consecutivePasses |-> 0,
     forcedShoot |-> FALSE, consecutiveSafeShots |-> 0, lastDeathTime |-> Undefined,
     createdAt |-> t,
     \* history, not fields of Game: the passes and bonus transfers so far,
     \* and who passed since the last shot or start
     passCount |-> 0, bonusCount |-> 0, passers |-> <<>>]

\* mutant: a waiting game blocks createGame too
createGameThrows_WaitingToo(c) == Lookup(c) /= Freed /\ Lookup(c).state \in {"active", "waiting"}

createGameThrows(c) == Lookup(c) /= Freed /\ Lookup(c).state = "active"

CreateGame(c) ==
    IF createGameThrows(c) THEN UNCHANGED vars
    ELSE /\ \E bullet \in BulletPositions :
               LET s == FreeSlot
                   gs == [games EXCEPT ![c] = s]
                   l == Last("createGame", s, "waiting", NoMsg, NoMsg)
               IN /\ games' = gs
                  /\ last' = l
                  /\ heap' = Collect([heap EXCEPT ![s] = NewGame(c, bullet, now)], gs)
         /\ UNCHANGED <<pending, now, dist, timers, starts>>

(* ---------------- addPlayer ---------------- *)
userIds(game) == {game.players[i].userId : i \in 1..Len(game.players)}

\* mutant: the capacity check comes before the duplicate check
addPlayerError_FullFirst(game, userId) ==
    IF game = Freed THEN "No game found"
    ELSE IF game.state /= "waiting" THEN "Game is already in progress"
    ELSE IF Len(game.players) >= maxPlayers THEN "Game is full"
    ELSE IF userId \in userIds(game) THEN "You are already in this game"
    ELSE "ok"

\* mutant: no capacity check
addPlayerError_NoCapacity(game, userId) ==
    IF game = Freed THEN "No game found"
    ELSE IF game.state /= "waiting" THEN "Game is already in progress"
    ELSE IF userId \in userIds(game) THEN "You are already in this game"
    ELSE "ok"

addPlayerError(game, userId) ==
    IF game = Freed THEN "No game found"
    ELSE IF game.state /= "waiting" THEN "Game is already in progress"
    ELSE IF userId \in userIds(game) THEN "You are already in this game"
    ELSE IF Len(game.players) >= maxPlayers THEN "Game is full"
    ELSE "ok"

\* mutant: the whole entry goes to poolA
addPlayerTo_Gross(game, userId, entryAmount) ==
    LET d == calculateEntryDistribution(entryAmount, rakePercent)
        player == [userId |-> userId, isAlive |-> TRUE, entryAmount |-> entryAmount]
        players == Append(game.players, player)
    IN [game EXCEPT !.players = players,
                    !.alivePlayers = Append(@, Len(players)),
                    !.poolA = @ + entryAmount,
                    !.houseRake = @ + d.rake]

addPlayerTo(game, userId, entryAmount) ==
    LET d == calculateEntryDistribution(entryAmount, rakePercent)
        player == [userId |-> userId, isAlive |-> TRUE, entryAmount |-> entryAmount]
        players == Append(game.players, player)
    IN [game EXCEPT !.players = players,
                    !.alivePlayers = Append(@, Len(players)),
                    !.poolA = @ + d.toPoolA,
                    !.houseRake = @ + d.rake]

AddPlayer(c, userId, entryAmount) ==
    IF addPlayerError(Lookup(c), userId) /= "ok" THEN UNCHANGED vars
    ELSE /\ LET g == addPlayerTo(Lookup(c), userId, entryAmount)
                l == Last("addPlayer", games[c], g.state, NoMsg, Msg("joined", "", NoWinner, g.poolA))
            IN /\ last' = l
               /\ heap' = [heap EXCEPT ![games[c]] = g]
         /\ UNCHANGED <<games, pending, now, dist, timers, starts>>

(* ---------------- startGame ---------------- *)
\* mutant: any joined player is enough to start
startGameError_OnePlayer(game) ==
    IF game = Freed THEN "No game found"
    ELSE IF game.state = "active" THEN "Game is already active"
    ELSE IF Len(game.players) < 1 THEN "Need more players"
    ELSE "ok"

startGameError(game) ==
    IF game = Freed THEN "No game found"
    ELSE IF game.state = "active" THEN "Game is already active"
    ELSE IF Len(game.players) < minPlayers THEN "Need more players"
    ELSE "ok"

startGameOn(game, bullet) ==
    resetGun([game EXCEPT !.state = "active",
                          !.currentTurnIndex = 0,
                          !.consecutivePasses = 0,
                          !.forcedShoot = FALSE,
                          !.consecutiveSafeShots = 0,
                          !.lastDeathTime = Undefined,
                          !.passers = <<>>], bullet)

StartGame(c) ==
    IF startGameError(Lookup(c)) /= "ok" THEN UNCHANGED vars
    ELSE /\ \E bullet \in BulletPositions :
               LET l == Last("startGame", games[c], "active", NoMsg, Msg("started", "", NoWinner, 0))
               IN /\ last' = l
                  /\ heap' = [heap EXCEPT ![games[c]] = startGameOn(@, bullet)]
         /\ UNCHANGED <<games, pending, now, dist, timers, starts>>

(* ---------------- handleAction ---------------- *)
hasCurrentPlayer(game) ==
    game.currentTurnIndex >= 0 /\ game.currentTurnIndex < Len(game.alivePlayers)

\* alivePlayers[currentTurnIndex]: the Player object, as its position in players
currentRef(game) == game.alivePlayers[game.currentTurnIndex + 1]

currentPlayer(game) == game.players[currentRef(game)]

\* mutant: the state check is left out
handleActionError_NoStateCheck(game, userId, action) ==
    IF game = Freed THEN "No active game found"
    ELSE IF ~hasCurrentPlayer(game)
            \/ toLowerCase(currentPlayer(game).userId) /= toLowerCase(userId)
         THEN "It's not your turn"
    ELSE IF ~currentPlayer(game).isAlive THEN "You are already eliminated"
    ELSE IF action = "pass" /\ game.forcedShoot THEN "Full table passed! You must /shoot"
    ELSE "ok"

\* mutant: the turn check is left out
handleActionError_NoTurnCheck(game, userId, action) ==
    IF game = Freed THEN "No active game found"
    ELSE IF game.state /= "active" THEN "Game is not active"
    ELSE IF ~hasCurrentPlayer(game) THEN "It's not your turn"
    ELSE IF ~currentPlayer(game).isAlive THEN "You are already eliminated"
    ELSE IF action = "pass" /\ game.forcedShoot THEN "Full table passed! You must /shoot"
    ELSE "ok"

handleActionError(game, userId, action) ==
    IF game = Freed THEN "No active game found"
    ELSE IF game.state /= "active" THEN "Game is not active"
    ELSE IF ~hasCurrentPlayer(game)
            \/ toLowerCase(currentPlayer(game).userId) /= toLowerCase(userId)
         THEN "It's not your turn"
    ELSE IF ~currentPlayer(game).isAlive THEN "You are already eliminated"
    ELSE IF action = "pass" /\ game.forcedShoot THEN "Full table passed! You must /shoot"
    ELSE "ok"

\* the outcome of the synchronous part of a call: the Game object after it,
\* whether the call removed the registry entry, and the result message
Outcome(game, deleted, playerDied, msg) ==
    [game |-> game, deleted |-> deleted, playerDied |-> playerDied, msg |-> msg]

\* mutant: a pass resets the run of safe shots
passBranch_ClearsSafeShots(game, userId) ==
    LET g1 == [game EXCEPT !.poolB = @ + passPenalty,
                           !.consecutivePasses = @ + 1,
                           !.consecutiveSafeShots = 0,
                           !.passCount = @ + 1,
                           !.passers = Append(@, currentRef(game))]
        full == g1.consecutivePasses >= Len(g1.alivePlayers)
        g2 == IF full THEN [g1 EXCEPT !.forcedShoot = TRUE] ELSE g1
    IN Outcome(g2, FALSE, FALSE, Msg(IF full THEN "passFullTable" ELSE "pass", "", NoWinner, g2.poolB))

\* mutant: forced shoot only once the passes exceed the table
passBranch_Strict(game, userId) ==
    LET g1 == [game EXCEPT !.poolB = @ + passPenalty,
                           !.consecutivePasses = @ + 1,
                           !.passCount = @ + 1,
                           !.passers = Append(@, currentRef(game))]
        full == g1.consecutivePasses > Len(g1.alivePlayers)
        g2 == IF full THEN [g1 EXCEPT !.forcedShoot = TRUE] ELSE g1
    IN Outcome(g2, FALSE, FALSE, Msg(IF full THEN "passFullTable" ELSE "pass", "", NoWinner, g2.poolB))

passBranch(game, userId) ==
    LET g1 == [game EXCEPT !.poolB = @ + passPenalty,
                           !.consecutivePasses = @ + 1,
                           !.passCount = @ + 1,
                           !.passers = Append(@, currentRef(game))]
        full == g1.consecutivePasses >= Len(g1.alivePlayers)
        g2 == IF full THEN [g1 EXCEPT !.forcedShoot = TRUE] ELSE g1
    IN Outcome(g2, FALSE, FALSE, Msg(IF full THEN "passFullTable" ELSE "pass", "", NoWinner, g2.poolB))

\* mutant: the player after the shooter is eliminated
diesBranch_KillsNext(game, userId, bullet, t) ==
    LET next == game.alivePlayers[((game.currentTurnIndex + 1) % Len(game.alivePlayers)) + 1]
        players == [game.players EXCEPT ![next].isAlive = FALSE]
        alive == SelectSeq(game.alivePlayers, LAMBDA r : players[r].isAlive)
        g1 == [game EXCEPT !.players = players,
                           !.alivePlayers = alive,
                           !.consecutiveSafeShots = 0,
                           !.lastDeathTime = t,
                           !.currentTurnIndex = IF @ >= Len(alive) THEN 0 ELSE @]
        g2 == [resetGun(g1, bullet) EXCEPT !.forcedShoot = FALSE]
    IN IF Len(g2.alivePlayers) = 1
       THEN Outcome([g2 EXCEPT !.state = "finished"], TRUE, TRUE,
                    Msg("win", userId, g2.players[g2.alivePlayers[1]].userId, g2.poolA))
       ELSE Outcome(g2, FALSE, TRUE, Msg("bang", userId, NoWinner, Len(g2.alivePlayers)))

\* mutant: alivePlayers is not recomputed
diesBranch_NoFilter(game, userId, bullet, t) ==
    LET players == [game.players EXCEPT ![currentRef(game)].isAlive = FALSE]
        g1 == [game EXCEPT !.players = players,
                           !.consecutiveSafeShots = 0,
                           !.lastDeathTime = t]
        g2 == [resetGun(g1, bullet) EXCEPT !.forcedShoot = FALSE]
    IN Outcome(g2, FALSE, TRUE, Msg("bang", userId, NoWinner, Len(g2.alivePlayers)))

\* mutant: the turn index is not wrapped after the compaction
diesBranch_NoWrap(game, userId, bullet, t) ==
    LET players == [game.players EXCEPT ![currentRef(game)].isAlive = FALSE]
        alive == SelectSeq(game.alivePlayers, LAMBDA r : players[r].isAlive)
        g1 == [game EXCEPT !.players = players,
                           !.alivePlayers = alive,
                           !.consecutiveSafeShots = 0,
                           !.lastDeathTime = t]
        g2 == [resetGun(g1, bullet) EXCEPT !.forcedShoot = FALSE]
    IN IF Len(g2.alivePlayers) = 1
       THEN Outcome([g2 EXCEPT !.state = "finished"], TRUE, TRUE,
                    Msg("win", userId, g2.players[g2.alivePlayers[1]].userId, g2.poolA))
       ELSE Outcome(g2, FALSE, TRUE, Msg("bang", userId, NoWinner, Len(g2.alivePlayers)))

\* mutant: the winner's game is left in the registry
diesBranch_KeepRegistered(game, userId, bullet, t) ==
    LET players == [game.players EXCEPT ![currentRef(game)].isAlive = FALSE]
        alive == SelectSeq(game.alivePlayers, LAMBDA r : players[r].isAlive)
        g1 == [game EXCEPT !.players = players,
                           !.alivePlayers = alive,
                           !.consecutiveSafeShots = 0,
                           !.lastDeathTime = t,
                           !.currentTurnIndex = IF @ >= Len(alive) THEN 0 ELSE @]
        g2 == [resetGun(g1, bullet) EXCEPT !.forcedShoot = FALSE]
    IN IF Len(g2.alivePlayers) = 1
       THEN Outcome([g2 EXCEPT !.state = "finished"], FALSE, TRUE,
                    Msg("win", userId, g2.players[g2.alivePlayers[1]].userId, g2.poolA))
       ELSE Outcome(g2, FALSE, TRUE, Msg("bang", userId, NoWinner, Len(g2.alivePlayers)))

diesBranch(game, userId, bullet, t) ==
    LET players == [game.players EXCEPT ![currentRef(game)].isAlive = FALSE]
        alive == SelectSeq(game.alivePlayers, LAMBDA r : players[r].isAlive)
        g1 == [game EXCEPT !.players = players,
                           !.alivePlayers = alive,
                           !.consecutiveSafeShots = 0,
                           !.lastDeathTime = t,
                           !.currentTurnIndex = IF @ >= Len(alive) THEN 0 ELSE @]
        g2 == [resetGun(g1, bullet) EXCEPT !.forcedShoot = FALSE]
    IN IF Len(g2.alivePlayers) = 1
       THEN Outcome([g2 EXCEPT !.state = "finished"], TRUE, TRUE,
                    Msg("win", userId, g2.players[g2.alivePlayers[1]].userId, g2.poolA))
       ELSE Outcome(g2, FALSE, TRUE, Msg("bang", userId, NoWinner, Len(g2.alivePlayers)))

\* mutant: the bonus leaves poolB and never reaches poolA
bonusTransfer_NotCredited(game) ==
    IF game.poolB >= bonusFromB
    THEN [game EXCEPT !.poolB = @ - bonusFromB, !.bonusCount = @ + 1]
    ELSE game

\* mutant: the bonus is paid whatever poolB holds
bonusTransfer_Unconditional(game) ==
    [game EXCEPT !.poolA = @ + bonusFromB, !.poolB = @ - bonusFromB, !.bonusCount = @ + 1]

bonusTransfer(game) ==
    IF game.poolB >= bonusFromB
    THEN [game EXCEPT !.poolA = @ + bonusFromB, !.poolB = @ - bonusFromB, !.bonusCount = @ + 1]
    ELSE game

\* mutant: the ceiling is hit one safe shot late
survivesBranch_Late(game, userId) ==
    LET g1 == [game EXCEPT !.consecutiveSafeShots = @ + 1]
    IN IF g1.consecutiveSafeShots > maxSafeShots
       THEN Outcome([g1 EXCEPT !.state = "finished"], TRUE, FALSE,
                    Msg("safeLimit", "", NoWinner, g1.poolA \div Len(g1.alivePlayers)))
       ELSE LET g2 == bonusTransfer(g1)
            IN Outcome(advanceChamber(g2), FALSE, FALSE,
                       Msg(IF g2.poolA /= g1.poolA THEN "safeBonus" ELSE "safe", "", NoWinner, g2.poolA))

survivesBranch(game, userId) ==
    LET g1 == [game EXCEPT !.consecutiveSafeShots = @ + 1]
    IN IF g1.consecutiveSafeShots >= maxSafeShots
       THEN Outcome([g1 EXCEPT !.state = "finished"], TRUE, FALSE,
                    Msg("safeLimit", "", NoWinner, g1.poolA \div Len(g1.alivePlayers)))
       ELSE LET g2 == bonusTransfer(g1)
            IN Outcome(advanceChamber(g2), FALSE, FALSE,
                       Msg(IF g2.poolA /= g1.poolA THEN "safeBonus" ELSE "safe", "", NoWinner, g2.poolA))

\* mutant: a shot leaves the count of passes
shootBranch_KeepsPasses(game, userId, bullet, t) ==
    LET g1 == [game EXCEPT !.forcedShoot = FALSE, !.passers = <<>>]
    IN IF checkChamber(g1) THEN diesBranch(g1, userId, bullet, t)
       ELSE survivesBranch(g1, userId)

shootBranch(game, userId, bullet, t) ==
    LET g1 == [game EXCEPT !.consecutivePasses = 0, !.forcedShoot = FALSE, !.passers = <<>>]
    IN IF checkChamber(g1) THEN diesBranch(g1, userId, bullet, t)
       ELSE survivesBranch(g1, userId)

actionBranch(game, userId, action, bullet, t) ==
    IF action = "pass" THEN passBranch(game, userId)
    ELSE shootBranch(game, userId, bullet, t)

durationExceeded(game, t) == t - game.createdAt >= maxGameDurationMinutes

\* mutant: the turn skips a player
advanceTurn_Skip(game) ==
    IF Len(game.alivePlayers) = 0 THEN game
    ELSE [game EXCEPT !.currentTurnIndex = (@ + 2) % Len(game.alivePlayers)]

advanceTurn(game) ==
    IF Len(game.alivePlayers) = 0 THEN game
    ELSE [game EXCEPT !.currentTurnIndex = (@ + 1) % Len(game.alivePlayers)]

\* mutant: the duration ceiling does not return, and the callback runs again
syncPart_FallsThrough(game, userId, action, bullet, t) ==
    LET o == actionBranch(game, userId, action, bullet, t)
    IN IF o.game.state = "active" /\ durationExceeded(o.game, t)
       THEN [game |-> [o.game EXCEPT !.state = "finished"],
             deleted |-> FALSE,
             path |-> "duration",
             cbMsg |-> Msg("duration", "", NoWinner, o.game.poolA \div Len(o.game.alivePlayers)),
             retMsg |-> NoMsg,
             callbacks |-> 2]
       ELSE [game |-> IF o.game.state = "active" /\ ~o.playerDied THEN advanceTurn(o.game) ELSE o.game,
             deleted |-> o.deleted,
             path |-> "normal",
             cbMsg |-> o.msg,
             retMsg |-> o.msg,
             callbacks |-> 1]

\* mutant: no duration ceiling
syncPart_NoCeiling(game, userId, action, bullet, t) ==
    LET o == actionBranch(game, userId, action, bullet, t)
    IN [game |-> IF o.game.state = "active" /\ ~o.playerDied THEN advanceTurn(o.game) ELSE o.game,
        deleted |-> o.deleted,
        path |-> "normal",
        cbMsg |-> o.msg,
        retMsg |-> o.msg,
             callbacks |-> 1]

\* mutant: the turn is advanced after an elimination too
syncPart_AdvanceAfterDeath(game, userId, action, bullet, t) ==
    LET o == actionBranch(game, userId, action, bullet, t)
    IN IF o.game.state = "active" /\ durationExceeded(o.game, t)
       THEN [game |-> [o.game EXCEPT !.state = "finished"],
             deleted |-> FALSE,
             path |-> "duration",
             cbMsg |-> Msg("duration", "", NoWinner, o.game.poolA \div Len(o.game.alivePlayers)),
             retMsg |-> NoMsg,
             callbacks |-> 1]
       ELSE [game |-> IF o.game.state = "active" THEN advanceTurn(o.game) ELSE o.game,
             deleted |-> o.deleted,
             path |-> "normal",
             cbMsg |-> o.msg,
             retMsg |-> o.msg,
             callbacks |-> 1]

\* everything handleAction does before it awaits the callback: the Game
\* object, the registry entry, the callback's message and the returned one
syncPart(game, userId, action, bullet, t) ==
    LET o == actionBranch(game, userId, action, bullet, t)
    IN IF o.game.state = "active" /\ durationExceeded(o.game, t)
       THEN [game |-> [o.game EXCEPT !.state = "finished"],
             deleted |-> FALSE,
             path |-> "duration",
             cbMsg |-> Msg("duration", "", NoWinner, o.game.poolA \div Len(o.game.alivePlayers)),
             retMsg |-> NoMsg,
             callbacks |-> 1]
       ELSE [game |-> IF o.game.state = "active" /\ ~o.playerDied THEN advanceTurn(o.game) ELSE o.game,
             deleted |-> o.deleted,
             path |-> "normal",
             cbMsg |-> o.msg,
             retMsg |-> o.msg,
             callbacks |-> 1]

\* resetGun draws a bullet position only when the shot finds the bullet
BulletDraws(game, action) ==
    IF action = "shoot" /\ checkChamber(game) THEN BulletPositions ELSE {game.bulletChamber}

Suspended(c, slot) == [channelId |-> c, game |-> slot]

HandleAction(c, userId, action) ==
    IF handleActionError(Lookup(c), userId, action) /= "ok" THEN UNCHANGED vars
    ELSE /\ action = "pass" => Lookup(c).passCount < MaxPasses
         /\ \E bullet \in BulletDraws(Lookup(c), action) :
            \E r \in {syncPart(Lookup(c), userId, action, bullet, now)} :
               LET s == games[c]
                   gs == IF r.deleted THEN [games EXCEPT ![c] = 0] ELSE games
                   l == [Last("handleAction", s, r.game.state, r.cbMsg, r.retMsg)
                           EXCEPT !.callbacks = r.callbacks]
               IN /\ r.path = "duration" => Len(pending) < MaxPending
                  /\ games' = gs
                  /\ last' = l
                  /\ pending' = IF r.path = "duration" THEN Append(pending, Suspended(c, s)) ELSE pending
                  /\ heap' = Collect([heap EXCEPT ![s] = r.game], gs)
         /\ UNCHANGED <<now, dist, timers, starts>>

\* the callback's promise settles and the call runs to its return
HandleActionResume(k) ==
    /\ k \in 1..Len(pending)
    /\ LET p == pending[k]
           gs == [games EXCEPT ![p.channelId] = 0]
           \* the state of the call's Game as it returns: a Game the registry
           \* dropped in the meantime was finished when it was dropped
           st == IF heap[p.game] = Freed THEN "finished" ELSE heap[p.game].state
           l == Last("handleActionReturn", p.game, st, NoMsg, Msg("durationLimit", "", NoWinner, 0))
       IN /\ games' = gs
          /\ last' = l
          /\ pending' = SubSeq(pending, 1, k - 1) \o SubSeq(pending, k + 1, Len(pending))
          /\ heap' = Collect(heap, gs)
    /\ UNCHANGED <<now, dist, timers, starts>>

(* ---------------- stopGame ---------------- *)
stopGameError(game) ==
    IF game = Freed THEN "No active game found"
    ELSE IF game.state = "finished" THEN "Game is already finished"
    ELSE "ok"

\* mutant: the refund is split over every joined player
stopGameRefund_AllPlayers(game) ==
    IF Len(game.alivePlayers) > 0 /\ game.poolA > 0
    THEN game.poolA \div Len(game.players)
    ELSE IF game.state = "waiting" /\ Len(game.players) > 0 /\ game.poolA + game.houseRake > 0
    THEN (game.poolA + game.houseRake) \div Len(game.players)
    ELSE 0

\* the refund per player that stopGame reports, 0 when it reports none
stopGameRefund(game) ==
    IF Len(game.alivePlayers) > 0 /\ game.poolA > 0
    THEN game.poolA \div Len(game.alivePlayers)
    ELSE IF game.state = "waiting" /\ Len(game.players) > 0 /\ game.poolA + game.houseRake > 0
    THEN (game.poolA + game.houseRake) \div Len(game.players)
    ELSE 0

StopGame(c) ==
    IF stopGameError(Lookup(c)) /= "ok" THEN UNCHANGED vars
    ELSE /\ LET gs == [games EXCEPT ![c] = 0]
                l == Last("stopGame", games[c], "finished", NoMsg, Msg("stopped", "", NoWinner, stopGameRefund(Lookup(c))))
            IN /\ games' = gs
               /\ last' = l
               /\ heap' = Collect([heap EXCEPT ![games[c]].state = "finished"], gs)
         /\ UNCHANGED <<pending, now, dist, timers, starts>>

(* ---------------- getStatus ---------------- *)
\* the string getStatus returns, as the values it is built from; chambers is
\* not a field of Game, so the remaining chambers are NaN and the death
\* chance always reads '100'
getStatus(game) ==
    IF game = Freed THEN [kind |-> "status", text |-> "No active game"]
    ELSE IF game.state = "waiting"
    THEN [kind |-> "status", text |-> "Waiting for players",
          players |-> [k \in 1..Len(game.players) |-> game.players[k].userId],
          poolA |-> game.poolA, houseRake |-> game.houseRake]
    ELSE IF game.state = "active"
    THEN [kind |-> "status", text |-> "Round Active",
          alive |-> Len(game.alivePlayers), players |-> Len(game.players),
          poolA |-> game.poolA, poolB |-> game.poolB,
          turn |-> IF hasCurrentPlayer(game) THEN currentPlayer(game).userId ELSE "undefined",
          mustShoot |-> game.forcedShoot,
          chamber |-> IF game.gunChamber = NaN THEN NaN ELSE game.gunChamber + 1,
          deathChance |-> "100",
          safeShots |-> game.consecutiveSafeShots]
    ELSE [kind |-> "status", text |-> "Game finished"]

\* mutant: the chamber shown is computed by incrementing the field
GetStatus_Increments(c) ==
    /\ last' = [Last("getStatus", games[c], IF games[c] /= 0 THEN Lookup(c).state ELSE "none",
                     NoMsg, getStatus(Lookup(c)))
                EXCEPT !.callbacks = 0]
    /\ heap' = [i \in Slots |->
                  IF i = games[c] /\ heap[i].state = "active" /\ heap[i].gunChamber /= NaN
                  THEN [heap[i] EXCEPT !.gunChamber = @ + 1] ELSE heap[i]]
    /\ UNCHANGED <<games, pending, now, dist, timers, starts>>

GetStatus(c) ==
    /\ last' = Last("getStatus", games[c], IF games[c] /= 0 THEN Lookup(c).state ELSE "none",
                    NoMsg, getStatus(Lookup(c)))
    /\ UNCHANGED <<games, heap, pending, now, dist, timers, starts>>

(* ---------------- the clock ---------------- *)
Tick ==
    /\ now + maxGameDurationMinutes <= MaxNow
    /\ now' = now + maxGameDurationMinutes
    /\ UNCHANGED <<games, heap, pending, last, dist, timers, starts>>

(* ---------------- calculateEntryDistribution on its own ---------------- *)
InitDist ==
    /\ games = [c \in Channels |-> 0]
    /\ heap = [i \in Slots |-> Freed]
    /\ pending = <<>>
    /\ last = Last("none", 0, "none", NoMsg, NoMsg)
    /\ now = 0
    /\ \E amount \in 0..MaxAmount, pct \in RakePercents : dist = DistCall(amount, pct)
    /\ timers = {}
    /\ starts = {}

Distribute ==
    /\ ~dist.returned
    /\ LET d == calculateEntryDistribution(dist.amount, dist.rakePercent)
       IN dist' = [dist EXCEPT !.returned = TRUE, !.rake = d.rake, !.toPoolA = d.toPoolA]
    /\ UNCHANGED <<games, heap, pending, last, now, timers, starts>>

(* ======================= the auto-shoot variant ======================= *)
(* src/unnamed/part_002 is the GameManager with turn timers: the same      *)
(* registry and Game objects (games, heap), no safe-shot or duration       *)
(* ceiling, exact comparison of identities, and startTurnTimer, which      *)
(* starts a countdown interval and a timeout that shoots for the turn      *)
(* holder.  timers holds one record for each startTurnTimer call that has  *)
(* something left to run: whether its timeout is pending, whether the      *)
(* Game's turnTimer field holds the handle of that timeout (held), and     *)
(* the count of its interval, 0 once the interval is cleared or can        *)
(* notify no more.  The turnTimer field of a Game is TRUE when it holds a  *)
(* handle, pending or not.  A pending timeout may fire and a running       *)
(* interval may tick at any moment: the model keeps no clock for them.     *)
(* The caller's /start handler (src/unnamed/part_001) calls startGame,     *)
(* awaits the sending of a message and then calls startTurnTimer with the  *)
(* Game it started: starts holds the Games of the handlers suspended in    *)
(* between.  turnStartTime and createdAt, which only getStatus reads, are  *)
(* left out, and so is endGame, which nothing in the sources calls.        *)

NewGameAuto(c, bullet) ==
    [channelId |-> c, state |-> "waiting", players |-> <<>>, alivePlayers |-> <<>>,
     currentTurnIndex |-> 0, poolA |-> 0, poolB |-> 0, houseRake |-> 0,
     gunChamber |-> 0, bulletChamber |-> bullet, consecutivePasses |-> 0,
     forcedShoot |-> FALSE, turnTimer |-> FALSE,
     \* history, not a field of Game: the passes so far
     passCount |-> 0]

\* what one startTurnTimer call leaves to run
Timer(slot, c, userId) ==
    [game |-> slot, channelId |-> c, userId |-> userId,
     timeout |-> TRUE, held |-> TRUE, secondsLeft |-> turnTimerSeconds]

\* a record with neither a pending timeout nor a running interval is gone
Running(tm) == {t \in tm : t.timeout \/ t.secondsLeft > 0}

\* clearTimeout(game.turnTimer) for the Game of slot s
clearTimeout(tm, s) ==
    Running({IF t.game = s /\ t.held THEN [t EXCEPT !.timeout = FALSE] ELSE t : t \in tm})

\* the turnTimer field of the Game of slot s is overwritten
released(tm, s) ==
    {IF t.game = s THEN [t EXCEPT !.held = FALSE] ELSE t : t \in tm}

\* clearInterval(countdownInterval) and the end of the timeout of record t
fired(tm, t) == tm \ {t}

\* the Games that the registry, a closure of a timer or a suspended /start
\* handler still refers to
ReferencedAuto(gs, tm, st) == Referenced(gs) \cup {t.game : t \in tm} \cup st

\* a Game that the registry no longer holds is read only by startTurnTimer and
\* by the countdown of an interval, which read its state, its turnTimer and
\* the player at alivePlayers[currentTurnIndex], if any: the model forgets
\* the rest of it
Unregistered(game) ==
    LET holder == IF hasCurrentPlayer(game)
                  THEN <<[currentPlayer(game) EXCEPT !.entryAmount = 0]>> ELSE <<>>
    IN [game EXCEPT !.poolA = 0, !.poolB = 0, !.houseRake = 0,
                    !.gunChamber = 0, !.bulletChamber = 0,
                    !.consecutivePasses = 0, !.forcedShoot = FALSE, !.passCount = 0,
                    !.players = holder,
                    !.alivePlayers = [k \in 1..Len(holder) |-> k],
                    !.currentTurnIndex = 0]

CollectAuto(h, gs, tm, st) ==
    [i \in Slots |-> IF i \in Referenced(gs) THEN h[i]
                      ELSE IF i \in ReferencedAuto(gs, tm, st) /\ h[i] /= Freed THEN Unregistered(h[i])
                      ELSE Freed]

\* Slot numbers are only names of Game objects.  After every operation of
\* the variant the objects are renamed: the registered Games take the first
\* slots and the others follow, each group in its earlier order.
SlotRank(h, gs) ==
    LET live == {i \in Slots : h[i] /= Freed}
        reg == Referenced(gs)
        Before(j, i) == \/ j \in reg /\ i \notin reg
                        \/ (j \in reg <=> i \in reg) /\ j < i
    IN [i \in Slots \cup {0} |->
          IF i \in live THEN Cardinality({j \in live : Before(j, i)}) + 1 ELSE 0]

\* the state of the variant after an operation that leaves heap h, registry
\* gs, timers tm and suspended handlers st, with l to be recorded in last
Packed(h, gs, tm, st, l) ==
    LET c0 == CollectAuto(h, gs, tm, st)
        rank == SlotRank(c0, gs)
    IN [heap |-> [k \in Slots |->
                    IF \E i \in Slots : rank[i] = k
                    THEN c0[CHOOSE i \in Slots : rank[i] = k] ELSE Freed],
        games |-> [c \in Channels |-> rank[gs[c]]],
        timers |-> {[t EXCEPT !.game = rank[@]] : t \in tm},
        starts |-> {rank[i] : i \in st},
        last |-> [l EXCEPT !.game = rank[@]]]

\* what the variant records of an operation: its name and the countdown
\* notification it sent, if any
LastAuto(op, cbMsg) == Last(op, 0, "none", cbMsg, NoMsg)

Commit(h, gs, tm, st, l) ==
    LET p == Packed(h, gs, tm, st, l)
    IN /\ heap' = p.heap
       /\ games' = p.games
       /\ timers' = p.timers
       /\ starts' = p.starts
       /\ last' = p.last
       /\ UNCHANGED <<pending, now, dist>>

(* ---------------- startTurnTimer ---------------- *)
\* mutant: the outstanding timeout is not cancelled
startTurnTimer_NoCancel(h, tm, s) ==
    IF ~hasCurrentPlayer(h[s]) THEN [heap |-> h, timers |-> tm]
    ELSE [heap |-> [h EXCEPT ![s].turnTimer = TRUE],
          timers |-> released(tm, s) \cup {Timer(s, h[s].channelId, currentPlayer(h[s]).userId)}]

\* the heap and the timers after startTurnTimer(game) on the Game of slot s
startTurnTimer(h, tm, s) ==
    LET tm1 == IF h[s].turnTimer THEN clearTimeout(tm, s) ELSE tm
    IN IF ~hasCurrentPlayer(h[s]) THEN [heap |-> h, timers |-> tm1]
       ELSE [heap |-> [h EXCEPT ![s].turnTimer = TRUE],
             timers |-> released(tm1, s) \cup {Timer(s, h[s].channelId, currentPlayer(h[s]).userId)}]

(* ---------------- createGame, addPlayer, startGame ---------------- *)
HasFreeSlot == \E i \in Slots : heap[i] = Freed

FreeSlotAuto == CHOOSE i \in Slots : heap[i] = Freed /\ \A j \in Slots : heap[j] = Freed => i <= j

CreateGameAuto(c) ==
    IF createGameThrows(c) THEN UNCHANGED vars
    ELSE /\ HasFreeSlot
         /\ \E bullet \in BulletsAuto :
               LET s == FreeSlotAuto
               IN Commit([heap EXCEPT ![s] = NewGameAuto(c, bullet)], [games EXCEPT ![c] = s],
                         timers, starts, LastAuto("createGame", NoMsg))

AddPlayerAuto(c, userId, entryAmount) ==
    IF addPlayerError(Lookup(c), userId) /= "ok" THEN UNCHANGED vars
    ELSE LET g == addPlayerTo(Lookup(c), userId, entryAmount)
         IN Commit([heap EXCEPT ![games[c]] = g], games, timers, starts,
                   LastAuto("addPlayer", NoMsg))

startGameOnAuto(game, bullet) ==
    resetGun([game EXCEPT !.state = "active",
                          !.currentTurnIndex = 0,
                          !.consecutivePasses = 0,
                          !.forcedShoot = FALSE], bullet)

\* startGame as the /start handler calls it: on success the handler sends
\* its message and is suspended before it starts the turn timer
StartGameAuto(c) ==
    IF startGameError(Lookup(c)) /= "ok" THEN UNCHANGED vars
    ELSE /\ Cardinality(starts) < MaxPending
         /\ \E bullet \in BulletsAuto :
               Commit([heap EXCEPT ![games[c]] = startGameOnAuto(@, bullet)], games, timers,
                      starts \cup {games[c]},
                      LastAuto("startGame", NoMsg))

\* the /start handler resumes and calls startTurnTimer with its Game
StartHandlerResumes(s) ==
    /\ s \in starts
    /\ Cardinality(timers) < MaxTimers
    /\ LET r == startTurnTimer(heap, timers, s)
       IN Commit(r.heap, games, r.timers, starts \ {s},
                 LastAuto("startTurnTimer", NoMsg))

(* ---------------- handleAction ---------------- *)
handleActionErrorAuto(game, userId, action) ==
    IF game = Freed THEN "No active game found"
    ELSE IF game.state /= "active" THEN "Game is not active"
    ELSE IF ~hasCurrentPlayer(game) \/ currentPlayer(game).userId /= userId
         THEN "It's not your turn"
    ELSE IF ~currentPlayer(game).isAlive THEN "You are already eliminated"
    ELSE IF action = "pass" /\ game.forcedShoot THEN "Full table passed! You must /shoot"
    ELSE "ok"

passBranchAuto(game, userId) ==
    LET g1 == [game EXCEPT !.poolB = @ + passPenalty,
                           !.consecutivePasses = @ + 1,
                           !.passCount = @ + 1]
        full == g1.consecutivePasses >= Len(g1.alivePlayers)
        g2 == IF full THEN [g1 EXCEPT !.forcedShoot = TRUE] ELSE g1
    IN Outcome(g2, FALSE, FALSE, Msg(IF full THEN "passFullTable" ELSE "pass", "", NoWinner, g2.poolB))

\* the turn index is left as it is when alivePlayers is compacted
diesBranchAuto(game, userId, bullet) ==
    LET players == [game.players EXCEPT ![currentRef(game)].isAlive = FALSE]
        alive == SelectSeq(game.alivePlayers, LAMBDA r : players[r].isAlive)
        g1 == [game EXCEPT !.players = players, !.alivePlayers = alive]
        g2 == [resetGun(g1, bullet) EXCEPT !.forcedShoot = FALSE]
    IN IF Len(g2.alivePlayers) = 1
       THEN Outcome([g2 EXCEPT !.state = "finished"], TRUE, TRUE,
                    Msg("win", userId, g2.players[g2.alivePlayers[1]].userId, g2.poolA))
       ELSE Outcome(g2, FALSE, TRUE, Msg("bang", userId, NoWinner, Len(g2.alivePlayers)))

bonusTransferAuto(game) ==
    IF game.poolB >= bonusFromB
    THEN [game EXCEPT !.poolA = @ + bonusFromB, !.poolB = @ - bonusFromB]
    ELSE game

survivesBranchAuto(game, userId) ==
    LET g2 == bonusTransferAuto(game)
    IN Outcome(advanceChamber(g2), FALSE, FALSE,
               Msg(IF g2.poolA /= game.poolA THEN "safeBonus" ELSE "safe", "", NoWinner, g2.poolA))

actionBranchAuto(game, userId, action, bullet) ==
    IF action = "pass" THEN passBranchAuto(game, userId)
    ELSE LET g1 == [game EXCEPT !.consecutivePasses = 0, !.forcedShoot = FALSE]
         IN IF checkChamber(g1) THEN diesBranchAuto(g1, userId, bullet)
            ELSE survivesBranchAuto(g1, userId)

\* mutant: the turn timer is not cleared before the action
handleActionAuto_KeepsTimer(h, gs, tm, c, userId, action, bullet) ==
    LET s == gs[c]
        o == actionBranchAuto(h[s], userId, action, bullet)
        h2 == [h EXCEPT ![s] = IF o.game.state = "active" THEN advanceTurn(o.game) ELSE o.game]
        r == IF o.game.state = "active" THEN startTurnTimer_NoCancel(h2, tm, s)
             ELSE [heap |-> h2, timers |-> tm]
    IN [heap |-> r.heap,
        timers |-> r.timers,
        games |-> IF o.deleted THEN [gs EXCEPT ![c] = 0] ELSE gs,
        game |-> s,
        state |-> o.game.state,
        msg |-> o.msg]

\* everything a successful handleAction does before it awaits the callback,
\* after which it only returns: the heap, the registry and the timers
handleActionAuto(h, gs, tm, c, userId, action, bullet) ==
    LET s == gs[c]
        tm1 == released(IF h[s].turnTimer THEN clearTimeout(tm, s) ELSE tm, s)
        h1 == [h EXCEPT ![s].turnTimer = FALSE]
        o == actionBranchAuto(h1[s], userId, action, bullet)
        h2 == [h1 EXCEPT ![s] = IF o.game.state = "active" THEN advanceTurn(o.game) ELSE o.game]
        r == IF o.game.state = "active" THEN startTurnTimer(h2, tm1, s)
             ELSE [heap |-> h2, timers |-> tm1]
    IN [heap |-> r.heap,
        timers |-> r.timers,
        games |-> IF o.deleted THEN [gs EXCEPT ![c] = 0] ELSE gs,
        game |-> s,
        state |-> o.game.state,
        msg |-> o.msg]

\* resetGun draws a bullet position only when the shot finds the bullet
BulletDrawsAuto(game, action) ==
    IF action = "shoot" /\ checkChamber(game) THEN BulletsAuto ELSE {game.bulletChamber}

HandleActionAuto(c, userId, action) ==
    IF handleActionErrorAuto(Lookup(c), userId, action) /= "ok" THEN UNCHANGED vars
    ELSE /\ action = "pass" => Lookup(c).passCount < MaxPasses
         /\ Cardinality(timers) < MaxTimers
         /\ \E bullet \in BulletDrawsAuto(Lookup(c), action) :
               LET r == handleActionAuto(heap, games, timers, c, userId, action, bullet)
               IN Commit(r.heap, r.games, r.timers, starts,
                         LastAuto("handleAction", NoMsg))

(* ---------------- the timers ---------------- *)
\* the test the timeout makes before it shoots
timeoutShoots(t) ==
    /\ Lookup(t.channelId) /= Freed
    /\ Lookup(t.channelId).state = "active"
    /\ hasCurrentPlayer(Lookup(t.channelId))
    /\ currentPlayer(Lookup(t.channelId)).userId = t.userId

\* the pending timeout of record t runs: it clears its interval and shoots
\* for its player if the channel's game is active and on that player's turn
TimeoutFires(t) ==
    /\ t \in timers
    /\ t.timeout
    /\ LET tm == fired(timers, t)
       IN IF timeoutShoots(t) /\ handleActionErrorAuto(Lookup(t.channelId), t.userId, "shoot") = "ok"
          THEN \E bullet \in BulletDrawsAuto(Lookup(t.channelId), "shoot") :
                  LET r == handleActionAuto(heap, games, tm, t.channelId, t.userId, "shoot", bullet)
                  IN Commit(r.heap, r.games, r.timers, starts,
                            LastAuto("autoShoot", NoMsg))
          ELSE Commit(heap, games, tm, starts,
                      LastAuto("timeout", NoMsg))

\* what the countdown of record t does at its tick: stop, or count down
\* and, in the last five seconds, notify
countdownStops(t) == heap[t.game].state /= "active" \/ ~heap[t.game].turnTimer

countdownEmits(t) == ~countdownStops(t) /\ t.secondsLeft - 1 > 0 /\ t.secondsLeft - 1 <= 5

\* the interval of record t ticks; once its count has run out it can notify
\* no more and is forgotten
CountdownTicks(t) ==
    /\ t \in timers
    /\ t.secondsLeft > 0
    /\ LET tm == Running((timers \ {t}) \cup
                         {[t EXCEPT !.secondsLeft = IF countdownStops(t) THEN 0 ELSE @ - 1]})
       IN Commit(heap, games, tm, starts,
                 LastAuto("countdown",
                          IF countdownEmits(t)
                          THEN Msg("countdown", t.userId, NoWinner, t.secondsLeft - 1)
                          ELSE NoMsg))

(* ---------------- specifications ---------------- *)
Next ==
    \/ \E c \in Channels : CreateGame(c)
    \/ \E c \in Channels, u \in Ids : \E amount \in Amounts(u) : AddPlayer(c, u, amount)
    \/ \E c \in Channels : StartGame(c)
    \/ \E c \in Channels, u \in Ids, action \in Actions : HandleAction(c, u, action)
    \/ \E k \in 1..MaxPending : HandleActionResume(k)
    \/ \E c \in Channels : StopGame(c)
    \/ Tick

Spec == Init /\ [][Next]_vars

NextDist == Distribute

\* a table with more callers than seats: joining, starting, shooting, stopping
NextTable ==
    \/ \E c \in Channels : CreateGame(c)
    \/ \E c \in Channels, u \in Visitors : \E amount \in Amounts(u) : AddPlayer(c, u, amount)
    \/ \E c \in Channels : StartGame(c)
    \/ \E c \in Channels, u \in Visitors : HandleAction(c, u, "shoot")
    \/ \E c \in Channels : StopGame(c)

SpecTable == Init /\ [][NextTable]_vars

\* the turn holder of some active game submits an action that succeeds
TurnHolderActs ==
    \E c \in Channels, u \in Ids, action \in Actions :
       handleActionError(Lookup(c), u, action) = "ok" /\ HandleAction(c, u, action)

\* the promise of some awaited callback settles
CallbackSettles == \E k \in 1..MaxPending : HandleActionResume(k)

\* the turn holder always eventually acts, and every awaited callback settles
SpecLive == Spec /\ WF_vars(TurnHolderActs) /\ WF_vars(CallbackSettles)

\* the table, with status queries in between
NextStatus ==
    \/ NextTable
    \/ \E c \in Channels : GetStatus(c)

SpecStatus == Init /\ [][NextStatus]_vars

SpecDist == InitDist /\ [][NextDist]_vars

\* the auto-shoot variant: the manager's operations, the /start handler's
\* second half and the timers
NextAuto ==
    \/ \E c \in Channels : CreateGameAuto(c)
    \/ \E c \in Channels, u \in Ids : AddPlayerAuto(c, u, EntryAuto)
    \/ \E c \in Channels : StartGameAuto(c)
    \/ \E s \in Slots : StartHandlerResumes(s)
    \/ \E c \in Channels, u \in Ids, action \in Actions : HandleActionAuto(c, u, action)
    \/ \E t \in timers : TimeoutFires(t)
    \/ \E t \in timers : CountdownTicks(t)

SpecAuto == Init /\ [][NextAuto]_vars

(* ======================= properties ======================= *)
GameSlots == {i \in Slots : heap[i] /= Freed}

Registered(c) == games[c] /= 0

SeqSum(f, n) == LET S[k \in 0..n] == IF k = 0 THEN 0 ELSE S[k - 1] + f[k] IN S[n]

Entries(game) == [k \in 1..Len(game.players) |-> game.players[k].entryAmount]

Rakes(game) == [k \in 1..Len(game.players) |-> (game.players[k].entryAmount * rakePercent) \div 100]

SumEntries(game) == SeqSum(Entries(game), Len(game.players))

SumRakes(game) == SeqSum(Rakes(game), Len(game.players))

\* the positions of the alive players, in join order
AliveRefs(game) ==
    SelectSeq([k \in 1..Len(game.players) |-> k], LAMBDA k : game.players[k].isAlive)

TurnHolderMatches(game, userId) ==
    /\ game /= Freed
    /\ game.state = "active"
    /\ game.currentTurnIndex \in 0..(Len(game.alivePlayers) - 1)
    /\ toLowerCase(game.players[game.alivePlayers[game.currentTurnIndex + 1]].userId) = toLowerCase(userId)

\* C1: handleAction changes something only when the caller is, up to case,
\* the userId of alivePlayers[currentTurnIndex] of an active game; a call by
\* anyone else (another player, an eliminated player, a stranger) changes nothing.
C1_OnlyTurnHolderActs ==
    /\ [](\A c \in Channels, u \in Ids, action \in Actions :
             ~TurnHolderMatches(Lookup(c), u) => handleActionError(Lookup(c), u, action) /= "ok")
    /\ [][\A c \in Channels, u \in Ids, action \in Actions :
             HandleAction(c, u, action) => TurnHolderMatches(Lookup(c), u)]_vars

\* an active game that holds an eliminated player and a player who is not
\* the turn holder, just acted on by the turn holder
C1_Witness ==
    /\ last.op = "handleAction"
    /\ last.cbMsg.kind = "pass"
    /\ \E c \in Channels :
          /\ Registered(c)
          /\ Lookup(c).state = "active"
          /\ Len(Lookup(c).alivePlayers) = 2
          /\ \E k \in 1..Len(Lookup(c).players) : ~Lookup(c).players[k].isAlive

StateRank(st) == CASE st = "waiting" -> 0 [] st = "active" -> 1 [] st = "finished" -> 2

\* C2: the state of a Game object never moves backward
\* (waiting -> active -> finished), whatever operations run and whenever.
C2_StateNeverBackward ==
    [][\A i \in Slots :
          (heap[i] /= Freed /\ heap'[i] /= Freed)
             => StateRank(heap[i].state) <= StateRank(heap'[i].state)]_vars

\* C3: alivePlayers is exactly the players with isAlive, in join order.
C3_AliveIsAliveSubsequence ==
    \A i \in GameSlots : heap[i].alivePlayers = AliveRefs(heap[i])

\* an active game whose middle player has been eliminated
C3_Witness ==
    \E i \in GameSlots :
        /\ heap[i].state = "active"
        /\ Len(heap[i].players) = 3
        /\ ~heap[i].players[2].isAlive
        /\ heap[i].alivePlayers = <<1, 3>>

\* C4: in an active game 0 <= currentTurnIndex < len(alivePlayers).
C4_TurnIndexInRange ==
    \A i \in GameSlots :
        heap[i].state = "active"
           => heap[i].currentTurnIndex >= 0 /\ heap[i].currentTurnIndex < Len(heap[i].alivePlayers)

\* the last player in rotation has just been eliminated and the index wrapped to 0
C4_Witness ==
    /\ last.op = "handleAction"
    /\ last.cbMsg.kind = "bang"
    /\ \E i \in GameSlots :
          /\ heap[i].state = "active"
          /\ heap[i].alivePlayers = <<1, 2>>
          /\ ~heap[i].players[3].isAlive
          /\ heap[i].currentTurnIndex = 0

\* a shoot by the turn holder of channel c that finds the bullet
EliminatingShot(c, u) ==
    /\ HandleAction(c, u, "shoot")
    /\ TurnHolderMatches(Lookup(c), u)
    /\ checkChamber(Lookup(c))

\* what the win rule does in the call that leaves one player alive
WinsInSameCall(c, u) ==
    LET g == Lookup(c)
        survivor == CHOOSE r \in 1..Len(g.players) :
                       g.players[r].isAlive /\ r /= currentRef(g)
    IN /\ games'[c] = 0
       /\ last'.op = "handleAction" /\ last'.game = games[c]
       /\ last'.state = "finished"
       /\ last'.cbMsg = Msg("win", u, g.players[survivor].userId, g.poolA)
       /\ last'.retMsg = last'.cbMsg

StaysActive(c) ==
    /\ games'[c] = games[c]
    /\ heap'[games[c]].state = "active"
    /\ Len(heap'[games[c]].alivePlayers) = Len(Lookup(c).alivePlayers) - 1

EndsByDurationCeiling(c) ==
    /\ durationExceeded(Lookup(c), now)
    /\ heap'[games[c]].state = "finished"
    /\ last'.cbMsg.kind = "duration"

\* C5 as stated: an eliminating shot that leaves one player alive finishes the
\* game, pays poolA to the survivor and removes the game, all in that call;
\* one that leaves two or more alive keeps the game active.
C5_Original ==
    [][\A c \in Channels, u \in Ids :
          EliminatingShot(c, u)
             => IF Len(Lookup(c).alivePlayers) = 2 THEN WinsInSameCall(c, u)
                ELSE StaysActive(c)]_vars

\* C5 amended: as C5, but an elimination that leaves two or more alive keeps
\* the game active only while the duration ceiling has not been reached; past
\* it, the same call finishes the game by the duration ceiling.
C5_WinOrContinue ==
    [][\A c \in Channels, u \in Ids :
          EliminatingShot(c, u)
             => IF Len(Lookup(c).alivePlayers) = 2 THEN WinsInSameCall(c, u)
                ELSE IF durationExceeded(Lookup(c), now) THEN EndsByDurationCeiling(c)
                ELSE StaysActive(c)]_vars

\* a win has just been notified: the game is finished and off the registry
C5_Witness ==
    /\ last.op = "handleAction"
    /\ last.cbMsg.kind = "win"
    /\ last.cbMsg.amount > 0
    /\ last.state = "finished"
    /\ \A c \in Channels : games[c] = 0

PoolAConserved(game) ==
    game.poolA = (SumEntries(game) - SumRakes(game)) + bonusFromB * game.bonusCount

\* C6: poolA is always the sum of the net entries plus bonusFromB for each
\* bonus transfer made, and that is what the winner is paid.
C6_PoolAConservation ==
    /\ [](\A i \in GameSlots : PoolAConserved(heap[i]))
    /\ [][\A c \in Channels, u \in Ids :
             (EliminatingShot(c, u) /\ Len(Lookup(c).alivePlayers) = 2)
                => last'.cbMsg.amount
                      = (SumEntries(Lookup(c)) - SumRakes(Lookup(c)))
                           + bonusFromB * Lookup(c).bonusCount]_vars

\* a winner has been paid a pool that holds a bonus transfer
C6_Witness ==
    /\ last.cbMsg.kind = "win"
    /\ last.cbMsg.amount = 900 + 900 + bonusFromB

\* C7: rake = floor(amount * rakePercent / 100), toPoolA = amount - rake,
\* so the two add up to amount and 0 <= rake <= amount.
C7_EntryDistribution ==
    dist.returned =>
    /\ dist.rake * 100 <= dist.amount * dist.rakePercent
    /\ dist.amount * dist.rakePercent < (dist.rake + 1) * 100
    /\ dist.toPoolA = dist.amount - dist.rake
    /\ dist.rake + dist.toPoolA = dist.amount
    /\ 0 <= dist.rake /\ dist.rake <= dist.amount

\* a distribution whose division leaves a remainder
C7_Witness ==
    dist.returned /\ dist.amount = 15 /\ dist.rakePercent = 10 /\ dist.rake = 1 /\ dist.toPoolA = 14

WaitingPoolsAreSums(game) ==
    /\ game.houseRake = SumRakes(game)
    /\ game.poolA = SumEntries(game) - SumRakes(game)
    /\ game.poolA + game.houseRake = SumEntries(game)

AppendsOneAlivePlayer(c, u, amount) ==
    LET g == Lookup(c)
        h == heap'[games[c]]
    IN /\ games'[c] = games[c]
       /\ h.players = Append(g.players, [userId |-> u, isAlive |-> TRUE, entryAmount |-> amount])
       /\ h.alivePlayers = Append(g.alivePlayers, Len(g.players) + 1)

\* C8: in a waiting game houseRake is the sum of the rakes and poolA the sum
\* of the net amounts of the joined players' entries, so together they are
\* the sum of the entries; a successful addPlayer appends one alive player
\* to players and to alivePlayers.
C8_AddPlayerAccumulates ==
    /\ [](\A i \in GameSlots : heap[i].state = "waiting" => WaitingPoolsAreSums(heap[i]))
    /\ [][\A c \in Channels, u \in Ids : \A amount \in Amounts(u) :
             (addPlayerError(Lookup(c), u) = "ok" /\ AddPlayer(c, u, amount))
                => AppendsOneAlivePlayer(c, u, amount)]_vars

\* two entries of 1000 at 10 percent
C8_Witness ==
    /\ last.op = "addPlayer"
    /\ \E i \in GameSlots :
          /\ heap[i].state = "waiting"
          /\ Len(heap[i].players) = 2
          /\ \A k \in 1..2 : heap[i].players[k].entryAmount = 1000
          /\ heap[i].poolA = 1800
          /\ heap[i].houseRake = 200

PoolsInBalance(game) ==
    /\ game.poolA >= 0
    /\ game.poolB >= 0
    /\ game.houseRake >= 0
    /\ game.poolB = passPenalty * game.passCount - bonusFromB * game.bonusCount

\* a successful pass, a successful shoot
PassStep(c, u) == handleActionError(Lookup(c), u, "pass") = "ok" /\ HandleAction(c, u, "pass")

ShootStep(c, u) == handleActionError(Lookup(c), u, "shoot") = "ok" /\ HandleAction(c, u, "shoot")

PoolBChangeIsPassOrBonus(i) ==
    \E c \in Channels, u \in Ids :
       /\ games[c] = i
       /\ \/ /\ PassStep(c, u)
             /\ heap'[i].poolB = heap[i].poolB + passPenalty
          \/ /\ ShootStep(c, u)
             /\ ~checkChamber(heap[i])
             /\ heap[i].poolB >= bonusFromB
             /\ heap'[i].poolB = heap[i].poolB - bonusFromB

\* C9: the three balances are never negative; poolB moves only by
\* +passPenalty on a successful pass and by -bonusFromB on a surviving shot
\* taken when poolB >= bonusFromB, so it is passPenalty times the passes
\* less bonusFromB times the bonus transfers.
C9_PoolBLedger ==
    /\ [](\A i \in GameSlots : PoolsInBalance(heap[i]))
    /\ [][\A i \in Slots :
             (heap[i] /= Freed /\ heap'[i] /= Freed /\ heap'[i].poolB /= heap[i].poolB)
                => PoolBChangeIsPassOrBonus(i)]_vars
    /\ [][\A c \in Channels, u \in Ids :
             PassStep(c, u)
                => heap'[games[c]].poolB = Lookup(c).poolB + passPenalty]_vars

\* two passes paid in, one bonus paid out by the surviving shot just taken
C9_Witness ==
    /\ last.cbMsg.kind = "safeBonus"
    /\ \E i \in GameSlots :
          /\ heap[i].passCount = 2
          /\ heap[i].bonusCount = 1
          /\ heap[i].poolB = passPenalty

Range(seq) == {seq[k] : k \in 1..Len(seq)}

PassSetsForcedShoot(c) ==
    LET g == Lookup(c)
        h == heap'[games[c]]
    IN /\ games'[c] = games[c]
       /\ ~g.forcedShoot
       /\ h.consecutivePasses = g.consecutivePasses + 1
       /\ h.forcedShoot <=> (g.consecutivePasses + 1 >= Len(g.alivePlayers))
       /\ h.state = "active" =>
             /\ h.currentTurnIndex = (g.currentTurnIndex + 1) % Len(g.alivePlayers)
             /\ h.forcedShoot => \A v \in Ids : handleActionError(h, v, "pass") /= "ok"

ForcedWhenAllHavePassed(game) ==
    /\ Len(game.passers) = game.consecutivePasses
    /\ Cardinality(Range(game.passers)) = Len(game.passers)
    /\ game.forcedShoot <=> Range(game.passers) = Range(game.alivePlayers)

ForcedShootError == "Full table passed! You must /shoot"

ForcedPassRejected ==
    \A c \in Channels, u \in Ids :
       (TurnHolderMatches(Lookup(c), u) /\ Lookup(c).forcedShoot)
          => handleActionError(Lookup(c), u, "pass") = ForcedShootError

ForcedPassChangesNothing ==
    \A c \in Channels, u \in Ids :
       (Registered(c) /\ Lookup(c).forcedShoot /\ HandleAction(c, u, "pass")) => UNCHANGED vars

ForcedShootClearedOnlyByShoot ==
    \A i \in Slots :
       (heap[i] /= Freed /\ heap'[i] /= Freed /\ heap[i].forcedShoot /\ ~heap'[i].forcedShoot)
          => \E c \in Channels, u \in Ids : games[c] = i /\ ShootStep(c, u)

ShootClearsForcedShoot ==
    \A c \in Channels, u \in Ids :
       (ShootStep(c, u) /\ heap'[games[c]] /= Freed)
          => /\ ~heap'[games[c]].forcedShoot
             /\ heap'[games[c]].consecutivePasses = 0

\* C11: while forcedShoot is set the turn holder's pass fails with the
\* forced-shoot error and changes nothing; the flag stays set until a shoot
\* is processed; every successful shoot leaves forcedShoot false and
\* consecutivePasses 0.
C11_ForcedShootUntilShoot ==
    /\ []ForcedPassRejected
    /\ [][ForcedPassChangesNothing]_vars
    /\ [][ForcedShootClearedOnlyByShoot]_vars
    /\ [][ShootClearsForcedShoot]_vars

\* the parts of C11 other than the persistence of the flag
C11_Rest ==
    /\ []ForcedPassRejected
    /\ [][ForcedPassChangesNothing]_vars
    /\ [][ShootClearsForcedShoot]_vars

\* the alive player after the turn holder, in alivePlayers order, wrapping
Successor(game) ==
    game.alivePlayers[((game.currentTurnIndex + 1) % Len(game.alivePlayers)) + 1]

TurnGoesToSuccessor(c) ==
    LET g == Lookup(c)
        h == heap'[games[c]]
    IN /\ games'[c] = games[c]
       /\ h.alivePlayers = SelectSeq(g.alivePlayers, LAMBDA r : r /= currentRef(g))
       /\ hasCurrentPlayer(h)
       /\ currentRef(h) = Successor(g)

\* C12: after an eliminating shot that leaves two or more alive, the turn
\* holder is the eliminated player's cyclic successor in the alivePlayers
\* order before the shot, wherever the eliminated player stood, and the
\* other survivors keep their order.
C12_TurnAfterElimination ==
    [][\A c \in Channels, u \in Ids :
          (EliminatingShot(c, u) /\ Len(Lookup(c).alivePlayers) >= 3)
             => TurnGoesToSuccessor(c)]_vars

\* the middle player of three was eliminated and the third holds the turn
C12_Witness ==
    /\ last.cbMsg.kind = "bang"
    /\ \E i \in GameSlots :
          /\ heap[i].state = "active"
          /\ ~heap[i].players[2].isAlive
          /\ heap[i].alivePlayers = <<1, 3>>
          /\ heap[i].currentTurnIndex = 1

\* a successful action on channel c that neither eliminates nor terminates
NonEliminatingAction(c, u, action) ==
    /\ handleActionError(Lookup(c), u, action) = "ok"
    /\ HandleAction(c, u, action)
    /\ games'[c] = games[c]
    /\ heap'[games[c]].state = "active"
    /\ Len(heap'[games[c]].alivePlayers) = Len(Lookup(c).alivePlayers)

TurnMovesByOne(c, u) ==
    LET g == Lookup(c)
        h == heap'[games[c]]
    IN /\ TurnHolderMatches(g, u)
       /\ h.alivePlayers = g.alivePlayers
       /\ h.currentTurnIndex = (g.currentTurnIndex + 1) % Len(g.alivePlayers)

RECURSIVE TurnsAhead(_, _)
TurnsAhead(game, k) == IF k = 0 THEN game ELSE advanceTurn(TurnsAhead(game, k - 1))

\* n turn advances visit the n alive players once each, in alivePlayers
\* order from the turn holder, and come back to the turn holder
FullCycle(game) ==
    LET n == Len(game.alivePlayers)
    IN /\ \A k \in 0..(n - 1) :
             TurnsAhead(game, k).currentTurnIndex = (game.currentTurnIndex + k) % n
       /\ Cardinality({currentRef(TurnsAhead(game, k)) : k \in 0..(n - 1)}) = n
       /\ TurnsAhead(game, n).currentTurnIndex = game.currentTurnIndex

TurnMovedByAction(i) ==
    \E c \in Channels, u \in Ids, action \in Actions :
       /\ games[c] = i
       /\ handleActionError(heap[i], u, action) = "ok"
       /\ HandleAction(c, u, action)

\* C13: each successful action that neither eliminates nor terminates is by
\* the turn holder and moves the turn to the next alive player, nothing else
\* moves the turn of an active game, and n such moves visit each of the n
\* alive players once, in order, and return to the start.
C13_TurnRotation ==
    /\ [][\A c \in Channels, u \in Ids, action \in Actions :
             NonEliminatingAction(c, u, action) => TurnMovesByOne(c, u)]_vars
    /\ [][\A i \in Slots :
             (/\ heap[i] /= Freed /\ heap'[i] /= Freed
              /\ heap[i].state = "active" /\ heap'[i].state = "active"
              /\ \/ heap'[i].currentTurnIndex /= heap[i].currentTurnIndex
                 \/ heap'[i].alivePlayers /= heap[i].alivePlayers)
                => TurnMovedByAction(i)]_vars
    /\ [](\A i \in GameSlots : heap[i].state = "active" => FullCycle(heap[i]))

\* three alive players acted once each (pass, pass, surviving shot) and the
\* turn is back at the first
C13_Witness ==
    /\ last.cbMsg.kind = "safeBonus"
    /\ \E i \in GameSlots :
          /\ heap[i].state = "active"
          /\ Len(heap[i].alivePlayers) = 3
          /\ heap[i].passCount = 2
          /\ heap[i].consecutiveSafeShots = 1
          /\ heap[i].currentTurnIndex = 0

\* a surviving shot that brings consecutiveSafeShots to maxSafeShots
SafeLimitShot(c, u) ==
    /\ ShootStep(c, u)
    /\ ~checkChamber(Lookup(c))
    /\ Lookup(c).consecutiveSafeShots + 1 >= maxSafeShots

EndsBySafeLimit(c, u) ==
    LET g == Lookup(c)
        r == syncPart(g, u, "shoot", g.bulletChamber, now)
    IN /\ games'[c] = 0
       /\ last'.op = "handleAction" /\ last'.game = games[c]
       /\ last'.state = "finished"
       /\ last'.cbMsg = Msg("safeLimit", "", NoWinner, g.poolA \div Len(g.alivePlayers))
       /\ last'.retMsg = last'.cbMsg
       /\ r.game.state = "finished"
       /\ r.game.poolA = g.poolA /\ r.game.poolB = g.poolB
       /\ r.game.bonusCount = g.bonusCount
       /\ r.game.gunChamber = g.gunChamber

\* C14: the surviving shot that brings consecutiveSafeShots to maxSafeShots
\* ends the game in that call: state finished, game off the registry, the
\* reported refund floor(poolA / len(alivePlayers)) per alive player, no
\* bonus transfer and no chamber advance.
C14_SafeShotCeiling ==
    [][\A c \in Channels, u \in Ids : SafeLimitShot(c, u) => EndsBySafeLimit(c, u)]_vars

\* poolA 1814 with three alive: 604 each and 2 left over
C14_Witness ==
    /\ last.op = "handleAction"
    /\ last.cbMsg = Msg("safeLimit", "", NoWinner, 604)
    /\ last.state = "finished"
    /\ \A c \in Channels : games[c] = 0

\* a successful action on an expired game that the action itself leaves active
ExpiredAction(c, u, action) ==
    /\ handleActionError(Lookup(c), u, action) = "ok"
    /\ HandleAction(c, u, action)
    /\ durationExceeded(Lookup(c), now)
    /\ \E bullet \in BulletDraws(Lookup(c), action) :
          actionBranch(Lookup(c), u, action, bullet, now).game.state = "active"

\* what the duration ceiling does before the call is suspended in the callback
ForceTerminated(c, u, action) ==
    LET g == Lookup(c)
        h == heap'[games[c]]
    IN /\ games'[c] = games[c]
       /\ h.state = "finished"
       /\ last'.state = "finished"
       /\ last'.cbMsg = Msg("duration", "", NoWinner, h.poolA \div Len(h.alivePlayers))
       /\ \E bullet \in BulletDraws(g, action) :
             h = [actionBranch(g, u, action, bullet, now).game EXCEPT !.state = "finished"]
       /\ action = "pass" => h.currentTurnIndex = g.currentTurnIndex
       /\ pending' = Append(pending, Suspended(c, games[c]))

\* a handleAction call that returns at once leaves no expired active game
NoExpiredActiveGame(c) ==
    ~(/\ games'[c] /= 0
      /\ heap'[games'[c]].state = "active"
      /\ durationExceeded(heap'[games'[c]], now))

\* C15: a successful action that leaves the game active on a game whose age
\* has reached maxGameDurationMinutes finishes it in the same call, reports
\* floor(poolA / len(alivePlayers)) per alive player and does not advance
\* the turn; the call removes the channel's game when it returns, so no
\* successful handleAction returns with an expired active game registered.
C15_DurationCeiling ==
    /\ [][\A c \in Channels, u \in Ids, action \in Actions :
             ExpiredAction(c, u, action) => ForceTerminated(c, u, action)]_vars
    /\ [][\A c \in Channels, u \in Ids, action \in Actions :
             (handleActionError(Lookup(c), u, action) = "ok" /\ HandleAction(c, u, action)
              /\ pending' = pending)
                => NoExpiredActiveGame(c)]_vars
    /\ [][\A k \in 1..MaxPending :
             HandleActionResume(k) => games'[pending[k].channelId] = 0]_vars

\* the first player's pass met the ceiling: finished, still registered while
\* the call is suspended, turn not advanced
C15_Witness ==
    /\ last.cbMsg.kind = "duration"
    /\ Len(pending) = 1
    /\ \E c \in Channels :
          /\ games[c] = pending[1].game
          /\ Lookup(c).state = "finished"
          /\ Lookup(c).passCount = 1
          /\ Lookup(c).currentTurnIndex = 0

\* a successful stopGame
StopStep(c) == stopGameError(Lookup(c)) = "ok" /\ StopGame(c)

\* C16: stopGame on a waiting game with n >= 1 joined players refunds
\* floor((poolA + houseRake) / n) to each joined player.
C16_WaitingRefundReturnsRake ==
    [][\A c \in Channels :
          (StopStep(c) /\ Lookup(c).state = "waiting" /\ Len(Lookup(c).players) >= 1)
             => last'.retMsg.amount
                   = (Lookup(c).poolA + Lookup(c).houseRake) \div Len(Lookup(c).players)]_vars

StopGameSucceedsWhenOpen ==
    \A c \in Channels :
       stopGameError(Lookup(c)) = "ok"
          <=> (Registered(c) /\ Lookup(c).state \in {"waiting", "active"})

StopGameFinishesAndRemoves(c) ==
    LET g == Lookup(c)
    IN /\ games'[c] = 0
       /\ last'.op = "stopGame" /\ last'.game = games[c]
       /\ last'.state = "finished"
       /\ (g.state = "active" /\ Len(g.alivePlayers) > 0 /\ g.poolA > 0)
             => last'.retMsg.amount = g.poolA \div Len(g.alivePlayers)

\* C17: stopGame succeeds exactly on a registered waiting or active game;
\* it sets state finished and removes the game; for a started game with
\* alive players and poolA > 0 the refund is floor(poolA / len(alivePlayers))
\* per alive player; a failing stopGame changes nothing.
C17_StopGame ==
    /\ []StopGameSucceedsWhenOpen
    /\ [][\A c \in Channels : StopStep(c) => StopGameFinishesAndRemoves(c)]_vars
    /\ [][\A c \in Channels :
             (stopGameError(Lookup(c)) /= "ok" /\ StopGame(c)) => UNCHANGED vars]_vars

\* a started game of three, one eliminated, stopped: 1814 over the two alive
C17_Witness ==
    /\ last.op = "stopGame"
    /\ last.state = "finished"
    /\ last.retMsg = Msg("stopped", "", NoWinner, 907)
    /\ \A c \in Channels : games[c] = 0

\* the outcome of addPlayer, check by check, for caller u on channel c
AddPlayerOutcome(c, u) ==
    LET g == Lookup(c)
        e == addPlayerError(g, u)
    IN /\ ~Registered(c) => e = "No game found"
       /\ (Registered(c) /\ g.state /= "waiting") => e = "Game is already in progress"
       /\ (Registered(c) /\ g.state = "waiting") =>
             /\ (\E k \in 1..Len(g.players) : g.players[k].userId = u)
                   => e = "You are already in this game"
             /\ ((\A k \in 1..Len(g.players) : g.players[k].userId /= u)
                   /\ Len(g.players) >= maxPlayers) => e = "Game is full"
             /\ ((\A k \in 1..Len(g.players) : g.players[k].userId /= u)
                   /\ Len(g.players) < maxPlayers) => e = "ok"

\* C18: addPlayer fails and changes nothing when there is no game, when
\* the game is not waiting, when the identity is already in players, or
\* when the table is full, tested in that order; otherwise it succeeds and
\* the player is added.
C18_AddPlayerChecks ==
    /\ [](\A c \in Channels, u \in Visitors : AddPlayerOutcome(c, u))
    /\ [][\A c \in Channels, u \in Visitors : \A amount \in Amounts(u) :
             (addPlayerError(Lookup(c), u) /= "ok" /\ AddPlayer(c, u, amount))
                => UNCHANGED vars]_vars
    /\ [][\A c \in Channels, u \in Visitors : \A amount \in Amounts(u) :
             (addPlayerError(Lookup(c), u) = "ok" /\ AddPlayer(c, u, amount))
                => Len(heap'[games[c]].players) = Len(Lookup(c).players) + 1]_vars

\* a full waiting table just joined by its last player, with a caller left
\* outside: the outsider is refused as full, a seated player as duplicate
C18_Witness ==
    /\ last.op = "addPlayer"
    /\ \E c \in Channels :
          /\ Registered(c)
          /\ Lookup(c).state = "waiting"
          /\ Len(Lookup(c).players) = maxPlayers
          /\ \E u \in Visitors : addPlayerError(Lookup(c), u) = "Game is full"
          /\ \E u \in Visitors : addPlayerError(Lookup(c), u) = "You are already in this game"

\* the joined players in join order, without their isAlive flags
Joined(game) ==
    [k \in 1..Len(game.players) |->
        [userId |-> game.players[k].userId, entryAmount |-> game.players[k].entryAmount]]

JoinedBy(i) ==
    \E c \in Channels, u \in Visitors : \E amount \in Amounts(u) :
       /\ games[c] = i
       /\ addPlayerError(heap[i], u) = "ok"
       /\ AddPlayer(c, u, amount)
       /\ Joined(heap'[i]) = Append(Joined(heap[i]), [userId |-> u, entryAmount |-> amount])

\* C19: len(players) <= maxPlayers always; players changes only by a
\* successful addPlayer appending one player to a waiting game, and never
\* once the game is active or finished.
C19_PlayersAppendOnly ==
    /\ [](\A i \in GameSlots : Len(heap[i].players) <= maxPlayers)
    /\ [][\A i \in Slots :
             (heap[i] /= Freed /\ heap'[i] /= Freed /\ Joined(heap'[i]) /= Joined(heap[i]))
                => (heap[i].state = "waiting" /\ JoinedBy(i))]_vars

\* a full table, started, one player shot: players still holds all who joined
C19_Witness ==
    /\ last.cbMsg.kind = "bang"
    /\ \E i \in GameSlots :
          /\ heap[i].state = "active"
          /\ Len(heap[i].players) = maxPlayers
          /\ Len(heap[i].alivePlayers) = maxPlayers - 1
          /\ \E u \in Visitors : u \notin userIds(heap[i])

CreateGameFailsOnActive ==
    \A c \in Channels :
       createGameThrows(c) <=> (Registered(c) /\ Lookup(c).state = "active")

\* the Game that createGame registers
IsFreshGame(game) ==
    /\ game.state = "waiting"
    /\ game.players = <<>> /\ game.alivePlayers = <<>>
    /\ game.poolA = 0 /\ game.poolB = 0 /\ game.houseRake = 0
    /\ game.currentTurnIndex = 0
    /\ game.gunChamber = 0
    /\ game.bulletChamber \in BulletPositions
    /\ ~game.forcedShoot
    /\ game.consecutivePasses = 0 /\ game.consecutiveSafeShots = 0
    /\ game.createdAt = now

RegistersFreshGame(c) ==
    /\ games'[c] /= 0
    /\ games'[c] /= games[c]
    /\ heap[games'[c]] = Freed
    /\ IsFreshGame(heap'[games'[c]])
    /\ last'.op = "createGame" /\ last'.game = games'[c]
    /\ \A c2 \in Channels : games[c] /= 0 => games'[c2] /= games[c]

\* C20: createGame fails iff the channel's registered game is active, and
\* then changes nothing; otherwise it registers a fresh waiting game with
\* empty lists, zero pools and counters, turn index 0, chamber 0 and
\* forcedShoot false, in place of the game registered before.
C20_CreateGame ==
    /\ []CreateGameFailsOnActive
    /\ [][\A c \in Channels : (createGameThrows(c) /\ CreateGame(c)) => UNCHANGED vars]_vars
    /\ [][\A c \in Channels : (~createGameThrows(c) /\ CreateGame(c)) => RegistersFreshGame(c)]_vars

\* a fresh game in the second slot with the first one released: it took the
\* place of a waiting game
C20_Witness ==
    /\ last.op = "createGame"
    /\ pending = <<>>
    /\ heap[1] = Freed
    /\ \E c \in Channels : games[c] = 2 /\ IsFreshGame(Lookup(c))

\* a successful startGame
StartStep(c) == startGameError(Lookup(c)) = "ok" /\ StartGame(c)

StartGameFailsWhen ==
    \A c \in Channels :
       startGameError(Lookup(c)) /= "ok"
          <=> \/ ~Registered(c)
              \/ Lookup(c).state = "active"
              \/ Len(Lookup(c).players) < minPlayers

StartGameResets(c) ==
    LET g == Lookup(c)
        h == heap'[games[c]]
    IN /\ games' = games
       /\ h.state = "active"
       /\ h.currentTurnIndex = 0
       /\ h.consecutivePasses = 0
       /\ ~h.forcedShoot
       /\ h.consecutiveSafeShots = 0
       /\ h.lastDeathTime = Undefined
       /\ h.gunChamber = 0 /\ h.bulletChamber \in BulletPositions
       /\ h.players = g.players /\ h.alivePlayers = g.alivePlayers
       /\ h.poolA = g.poolA /\ h.poolB = g.poolB /\ h.houseRake = g.houseRake

FirstJoinedHoldsTurn(c) ==
    LET h == heap'[games[c]]
    IN hasCurrentPlayer(h) /\ currentRef(h) = 1

\* C21: startGame fails and changes nothing without a game, on an active
\* game and below minPlayers; otherwise it sets state active, turn index 0,
\* the pass and safe-shot counters 0, forcedShoot false, clears the last
\* elimination time and reloads the gun, leaves the players and the pools
\* alone, and so the first joined player holds the first turn.
C21_StartGame ==
    /\ []StartGameFailsWhen
    /\ [][\A c \in Channels :
             (startGameError(Lookup(c)) /= "ok" /\ StartGame(c)) => UNCHANGED vars]_vars
    /\ [][\A c \in Channels : StartStep(c) => StartGameResets(c)]_vars
    /\ [][\A c \in Channels : StartStep(c) => FirstJoinedHoldsTurn(c)]_vars

\* C21 without its last clause
C21_Rest ==
    /\ []StartGameFailsWhen
    /\ [][\A c \in Channels :
             (startGameError(Lookup(c)) /= "ok" /\ StartGame(c)) => UNCHANGED vars]_vars
    /\ [][\A c \in Channels : StartStep(c) => StartGameResets(c)]_vars

\* C21 on a game that is waiting
C21_FirstTurnFromWaiting ==
    [][\A c \in Channels :
          (StartStep(c) /\ Lookup(c).state = "waiting") => FirstJoinedHoldsTurn(c)]_vars

\* C22: the registry never holds a finished game: every path that sets
\* state finished removes the game before any other operation or the
\* callback can see it, so no state in which an operation can run has a
\* finished game registered or a handleAction call suspended before its
\* registry removal.
C22_NoFinishedGameRegistered ==
    /\ \A c \in Channels : Registered(c) => Lookup(c).state /= "finished"
    /\ pending = <<>>

\* C22 on the paths that end the game before the callback is awaited
C22_SynchronousPaths ==
    [][\A c \in Channels :
          (/\ games[c] /= 0 /\ games'[c] = games[c]
           /\ heap[games[c]].state /= "finished"
           /\ heap'[games[c]].state = "finished")
             => last'.cbMsg.kind = "duration"]_vars

\* a successful handleAction, up to the point where it awaits the callback
ActionStep(c, u, action) ==
    handleActionError(Lookup(c), u, action) = "ok" /\ HandleAction(c, u, action)

\* the kinds of message of the six paths of a successful handleAction
PathKinds ==
    {"pass", "passFullTable", "safe", "safeBonus", "bang", "win", "safeLimit", "duration"}

CallbackOnceWithFinalState(c) ==
    /\ last'.op = "handleAction"
    /\ last'.callbacks = 1
    /\ last'.cbMsg.kind \in PathKinds
    /\ heap'[games[c]] /= Freed => last'.state = heap'[games[c]].state
    /\ heap'[games[c]] = Freed => (last'.state = "finished" /\ games'[c] = 0)

\* after the callback the call changes no field of any game
NothingAfterCallback ==
    \A i \in Slots : heap'[i] /= Freed => heap'[i] = heap[i]

\* C23: every successful handleAction invokes the callback exactly once,
\* after all the changes the action makes to the game, on every path: pass,
\* surviving shot, eliminating shot, win, safe-shot ceiling, duration ceiling.
C23_CallbackExactlyOnce ==
    /\ [][\A c \in Channels, u \in Ids, action \in Actions :
             ActionStep(c, u, action) => CallbackOnceWithFinalState(c)]_vars
    /\ [][\A k \in 1..MaxPending :
             HandleActionResume(k) => (last'.callbacks = 0 /\ NothingAfterCallback)]_vars

\* the duration-ceiling path has just invoked the callback, once
C23_Witness ==
    /\ last.op = "handleAction"
    /\ last.callbacks = 1
    /\ last.cbMsg.kind = "duration"
    /\ Len(pending) = 1

\* the messages that report the outcome of the action itself
ActionKinds == PathKinds \ {"duration"}

\* the calls that return as soon as the callback settles, with its message
ReturnsNotifiedMessage ==
    \A c \in Channels, u \in Ids, action \in Actions :
       (ActionStep(c, u, action) /\ pending' = pending)
          => (last'.retMsg = last'.cbMsg /\ last'.cbMsg.kind \in ActionKinds)

\* C24: in every successful handleAction the returned message is the
\* message passed to the callback, and it reports the outcome of the action
\* (pass, safe shot, elimination), also when the call ends in a
\* duration-ceiling termination.
C24_ReturnedMessageIsNotified ==
    /\ [][ReturnsNotifiedMessage]_vars
    /\ [][\A c \in Channels, u \in Ids, action \in Actions :
             ActionStep(c, u, action) => last'.cbMsg.kind \in ActionKinds]_vars
    /\ [][\A k \in 1..MaxPending :
             HandleActionResume(k) => last'.retMsg.kind \in ActionKinds]_vars

\* C24 on the paths other than the duration ceiling
C24_OtherPaths == [][ReturnsNotifiedMessage]_vars

\* the failure reported for each refused call
HandleActionFailure(c, u, action) ==
    LET g == Lookup(c)
        e == handleActionError(g, u, action)
    IN /\ ~Registered(c) => e = "No active game found"
       /\ (Registered(c) /\ g.state /= "active") => e = "Game is not active"
       /\ (Registered(c) /\ g.state = "active" /\ ~TurnHolderMatches(g, u))
             => e = "It's not your turn"
       /\ (TurnHolderMatches(g, u) /\ action = "pass" /\ g.forcedShoot)
             => e = ForcedShootError

\* C25: a handleAction call without a game, on a game that is not active,
\* by someone else than the turn holder, or passing while forcedShoot is
\* set, returns a failure, invokes no callback and changes no game field
\* and no registry entry.
C25_FailedActionChangesNothing ==
    /\ [](\A c \in Channels, u \in Ids, action \in Actions : HandleActionFailure(c, u, action))
    /\ [][\A c \in Channels, u \in Ids, action \in Actions :
             (handleActionError(Lookup(c), u, action) /= "ok" /\ HandleAction(c, u, action))
                => UNCHANGED vars]_vars

\* an active game whose turn holder must shoot: their pass and the other
\* player's action are refused
C25_Witness ==
    /\ last.op = "handleAction"
    /\ \E c \in Channels :
          /\ Registered(c)
          /\ Lookup(c).state = "active"
          /\ \E u \in Ids : handleActionError(Lookup(c), u, "pass") = ForcedShootError
          /\ \E u \in Ids : handleActionError(Lookup(c), u, "shoot") = "It's not your turn"

StatusChangesNothing(c) ==
    /\ games' = games /\ heap' = heap /\ pending' = pending
    /\ last'.retMsg = getStatus(Lookup(c))
    /\ last'.callbacks = 0

StatusRepeats(c) ==
    (last.op = "getStatus" /\ last.game = games[c]) => last'.retMsg = last.retMsg

BulletInRange(game) == game.bulletChamber >= 0 /\ game.bulletChamber < chambers

ChamberInRange(game) == game.gunChamber >= 0 /\ game.gunChamber < chambers

\* a surviving shot below the safe-shot ceiling on a game that stays registered
AdvancingShot(c, u) ==
    /\ ShootStep(c, u)
    /\ ~checkChamber(Lookup(c))
    /\ Lookup(c).consecutiveSafeShots + 1 < maxSafeShots

\* C27: in every state 0 <= chamberPosition < chambers and
\* 0 <= bulletPosition < chambers; each surviving shot moves chamberPosition
\* to (chamberPosition + 1) mod chambers; every drawn bulletPosition is in
\* [0, chambers).
C27_ChamberPositionsInRange ==
    /\ [](\A i \in GameSlots : ChamberInRange(heap[i]) /\ BulletInRange(heap[i]))
    /\ [][\A c \in Channels, u \in Ids :
             AdvancingShot(c, u)
                => heap'[games[c]].gunChamber = (Lookup(c).gunChamber + 1) % chambers]_vars

\* C27 for the bullet alone
C27_BulletPositionInRange == \A i \in GameSlots : BulletInRange(heap[i])

GunReloaded(game) == game.gunChamber = 0 /\ BulletInRange(game)

BulletChangedByReload(i) ==
    \E c \in Channels :
       /\ games[c] = i
       /\ \/ StartStep(c)
          \/ \E u \in Ids : EliminatingShot(c, u)

\* C28: startGame and every elimination reload the gun (chamberPosition 0
\* and a drawn bulletPosition); nothing else changes bulletPosition, so
\* passes and surviving shots leave it alone.
C28_GunReloads ==
    /\ [][\A c \in Channels : StartStep(c) => GunReloaded(heap'[games[c]])]_vars
    /\ [][\A c \in Channels, u \in Ids :
             (EliminatingShot(c, u) /\ heap'[games[c]] /= Freed)
                => GunReloaded(heap'[games[c]])]_vars
    /\ [][\A i \in Slots :
             (heap[i] /= Freed /\ heap'[i] /= Freed
              /\ heap'[i].bulletChamber /= heap[i].bulletChamber)
                => BulletChangedByReload(i)]_vars

\* an elimination just reloaded the gun and drew another chamber for the bullet
C28_Witness ==
    /\ last.cbMsg.kind = "bang"
    /\ \E i \in GameSlots :
          /\ heap[i].state = "active"
          /\ heap[i].gunChamber = 0
          /\ heap[i].bulletChamber = 3

IsAliveChangedByOwnShot(i, k) ==
    /\ heap[i].players[k].isAlive
    /\ ~heap'[i].players[k].isAlive
    /\ currentRef(heap[i]) = k
    /\ \E c \in Channels, u \in Ids : games[c] = i /\ EliminatingShot(c, u)

\* C29: a player's isAlive changes at most once, from true to false, and
\* only by the shot taken on that player's turn that finds the bullet; no
\* operation, startGame included, sets it back to true.
C29_EliminationIsMonotonic ==
    [][\A i \in Slots :
          (heap[i] /= Freed /\ heap'[i] /= Freed)
             => \A k \in 1..Len(heap[i].players) :
                   (k <= Len(heap'[i].players)
                    /\ heap'[i].players[k].isAlive /= heap[i].players[k].isAlive)
                      => IsAliveChangedByOwnShot(i, k)]_vars

\* a game restarted by startGame with its eliminated player still eliminated
C29_Witness ==
    /\ last.op = "startGame"
    /\ \E i \in GameSlots :
          /\ heap[i].state = "active"
          /\ \E k \in 1..Len(heap[i].players) : ~heap[i].players[k].isAlive

ActionsBounded(game) ==
    /\ game.consecutivePasses <= Len(game.alivePlayers)
    /\ game.consecutiveSafeShots < maxSafeShots
    /\ Len(game.alivePlayers) >= 1
    /\ Len(game.players) - Len(game.alivePlayers) <= Len(game.players) - 1

\* C30: if the turn holder always eventually submits an action that can
\* succeed, every active game is eventually finished and off the registry;
\* while it is active there are at most len(alivePlayers) passes since the
\* last shot, fewer than maxSafeShots surviving shots since the last
\* elimination, and at most len(players) - 1 eliminations.
C30_GameTerminates ==
    /\ \A i \in Slots :
          (heap[i] /= Freed /\ heap[i].state = "active") ~> (heap[i] = Freed)
    /\ [](\A i \in GameSlots : heap[i].state = "active" => ActionsBounded(heap[i]))
    /\ [][\A i \in Slots :
             (heap[i] /= Freed /\ heap'[i] = Freed /\ heap[i].state = "active")
                => last'.state = "finished"]_vars

\* C30 without the state in which the game leaves the registry: an active
\* game is eventually off the registry, within the bounds on its actions
C30_NeverHangs ==
    /\ \A i \in Slots :
          (heap[i] /= Freed /\ heap[i].state = "active") ~> (heap[i] = Freed)
    /\ [](\A i \in GameSlots : heap[i].state = "active" => ActionsBounded(heap[i]))

(* ---------------- C33 ---------------- *)
\* the Game after a pass by the turn holder, if the pass changed nothing but
\* poolB, consecutivePasses, forcedShoot and the turn (and the history
\* kept with the Game)
AfterPass(g, h) ==
    [g EXCEPT !.poolB = @ + passPenalty,
              !.consecutivePasses = @ + 1,
              !.forcedShoot = h.forcedShoot,
              !.currentTurnIndex = (@ + 1) % Len(g.alivePlayers),
              !.passCount = h.passCount,
              !.passers = h.passers]

\* the same at the duration ceiling: the game is finished, the turn stays
AfterLastPass(g, h) ==
    [g EXCEPT !.poolB = @ + passPenalty,
              !.consecutivePasses = @ + 1,
              !.forcedShoot = h.forcedShoot,
              !.state = "finished",
              !.passCount = h.passCount,
              !.passers = h.passers]

\* C33 as stated: a successful pass adds passPenalty to poolB and one to
\* consecutivePasses, moves the turn to the next alive player, may change
\* forcedShoot, and changes nothing else of the Game.
C33_Original ==
    [][\A c \in Channels, u \in Ids :
          PassStep(c, u) => heap'[games[c]] = AfterPass(Lookup(c), heap'[games[c]])]_vars

\* C33 amended: as C33 while the game is younger than the duration ceiling;
\* at or past the ceiling the pass also finishes the game and the turn stays.
\* poolA, houseRake, players, alivePlayers, the isAlive flags, the chamber,
\* the bullet and consecutiveSafeShots are unchanged in both cases.
C33_PassFrame ==
    [][\A c \in Channels, u \in Ids :
          PassStep(c, u)
             => IF durationExceeded(Lookup(c), now)
                THEN heap'[games[c]] = AfterLastPass(Lookup(c), heap'[games[c]])
                ELSE heap'[games[c]] = AfterPass(Lookup(c), heap'[games[c]])]_vars

\* a pass has just followed a surviving shot in a game that goes on
C33_Witness ==
    /\ last.op = "handleAction"
    /\ last.cbMsg.kind = "pass"
    /\ \E i \in GameSlots :
          /\ heap[i].state = "active"
          /\ heap[i].consecutiveSafeShots = 1
          /\ heap[i].gunChamber = NaN
          /\ heap[i].consecutivePasses = 1

(* ---------------- C34 ---------------- *)
\* a shot by the turn holder that finds no bullet, below the safe-shot ceiling
SurvivingShot(c, u) ==
    /\ ShootStep(c, u)
    /\ ~checkChamber(Lookup(c))
    /\ Lookup(c).consecutiveSafeShots + 1 < maxSafeShots

BonusMoved(g, h) ==
    IF g.poolB >= bonusFromB
    THEN h.poolA = g.poolA + bonusFromB /\ h.poolB = g.poolB - bonusFromB
    ELSE h.poolA = g.poolA /\ h.poolB = g.poolB

SurvivalKeeps(g, h) ==
    /\ h.consecutiveSafeShots = g.consecutiveSafeShots + 1
    /\ BonusMoved(g, h)
    /\ h.poolA + h.poolB = g.poolA + g.poolB
    /\ h.players = g.players
    /\ h.alivePlayers = g.alivePlayers
    /\ h.houseRake = g.houseRake
    /\ h.bulletChamber = g.bulletChamber

ChamberAdvancedByOne(g, h) ==
    /\ ChamberInRange(g)
    /\ h.gunChamber = (g.gunChamber + 1) % chambers

TurnToNextAlive(g, h) ==
    h.currentTurnIndex = (g.currentTurnIndex + 1) % Len(g.alivePlayers)

\* C34: a surviving shot below the safe-shot ceiling adds one to
\* consecutiveSafeShots, moves bonusFromB from poolB to poolA when poolB holds
\* it and otherwise leaves the pools, advances the chamber by one, leaves
\* players, alivePlayers, houseRake and the bullet, and passes the turn to the
\* next alive player.
C34_SurvivingShot ==
    [][\A c \in Channels, u \in Ids :
          SurvivingShot(c, u)
             => /\ SurvivalKeeps(Lookup(c), heap'[games[c]])
                /\ ChamberAdvancedByOne(Lookup(c), heap'[games[c]])
                /\ TurnToNextAlive(Lookup(c), heap'[games[c]])]_vars

\* C34 without the chamber: the counter, the pools and the frame are as
\* stated, and below the duration ceiling the turn passes to the next alive
\* player
C34_Rest ==
    [][\A c \in Channels, u \in Ids :
          SurvivingShot(c, u)
             => /\ SurvivalKeeps(Lookup(c), heap'[games[c]])
                /\ ~durationExceeded(Lookup(c), now)
                      => TurnToNextAlive(Lookup(c), heap'[games[c]])]_vars

(* ---------------- C35 ---------------- *)
\* the shots survived since the last reload: startGame and every elimination
\* reload the gun and reset consecutiveSafeShots, every surviving shot adds one
ShotsSinceReload(game) == game.consecutiveSafeShots

\* C35: after a reload that draws bullet position b the first b shots are
\* survived and shot b + 1 finds the bullet, so at most chambers - 1 shots in
\* a row are survived and, with maxSafeShots >= chambers, no game ends by the
\* safe-shot ceiling.
C35_RevolverSemantics ==
    /\ [][\A c \in Channels, u \in Ids :
             ShootStep(c, u)
                => (checkChamber(Lookup(c))
                      <=> ShotsSinceReload(Lookup(c)) = Lookup(c).bulletChamber)]_vars
    /\ [](\A i \in GameSlots :
             heap[i].state = "active" => ShotsSinceReload(heap[i]) <= chambers - 1)
    /\ [](maxSafeShots >= chambers => last.cbMsg.kind /= "safeLimit")

\* what the gun does: a shot finds the bullet only as the first shot after a
\* reload that drew position 0
C35_OnlyFirstShotKills ==
    [][\A c \in Channels, u \in Ids :
          ShootStep(c, u)
             => (checkChamber(Lookup(c))
                   <=> (ShotsSinceReload(Lookup(c)) = 0 /\ Lookup(c).bulletChamber = 0))]_vars

(* ---------------- C36 ---------------- *)
\* the per-player refund of the two ceilings divides poolA by the alive count
RefundDivisor(game) == Len(game.alivePlayers)

\* C36: every active game has at least two alive players (minPlayers >= 2):
\* startGame needs minPlayers joined players and the elimination that leaves
\* one alive finishes the game in the same call, so the refunds of the
\* ceilings never divide by zero and a sole survivor never has the turn.
C36_ActiveHasTwoAlive ==
    /\ [](\A i \in GameSlots :
             heap[i].state = "active" => Len(heap[i].alivePlayers) >= minPlayers)
    /\ [][\A c \in Channels :
             StartStep(c) => Len(heap'[games[c]].alivePlayers) >= minPlayers]_vars
    /\ [][\A c \in Channels, u \in Ids :
             (EliminatingShot(c, u) /\ Len(Lookup(c).alivePlayers) = 2)
                => last'.state = "finished" /\ games'[c] = 0]_vars
    /\ [][\A c \in Channels, u \in Ids, action \in Actions :
             ActionStep(c, u, action) => RefundDivisor(Lookup(c)) >= 2]_vars

\* a started game of three has lost a player and goes on with two
C36_Witness ==
    /\ last.op = "handleAction"
    /\ last.cbMsg.kind = "bang"
    /\ \E i \in GameSlots :
          /\ heap[i].state = "active"
          /\ Len(heap[i].players) = 3
          /\ Len(heap[i].alivePlayers) = 2

(* ---------------- C37 ---------------- *)
PassesWithinTable(game) ==
    /\ game.consecutivePasses >= 0
    /\ game.consecutivePasses <= Len(game.alivePlayers)
    /\ game.forcedShoot <=> game.consecutivePasses = Len(game.alivePlayers)

\* C37: in an active game consecutivePasses <= len(alivePlayers), and
\* forcedShoot holds exactly when the two are equal; every shot resets the
\* counter, so an elimination never leaves fewer alive players than passes.
C37_PassesWithinTable ==
    /\ [](\A i \in GameSlots : heap[i].state = "active" => PassesWithinTable(heap[i]))
    /\ [][\A c \in Channels, u \in Ids :
             (ShootStep(c, u) /\ heap'[games[c]] /= Freed)
                => heap'[games[c]].consecutivePasses = 0]_vars

\* a game of three has lost a player to a shot that followed two passes
C37_Witness ==
    /\ last.op = "handleAction"
    /\ last.cbMsg.kind = "bang"
    /\ \E i \in GameSlots :
          /\ heap[i].state = "active"
          /\ heap[i].passCount = 2
          /\ heap[i].consecutivePasses = 0
          /\ Len(heap[i].alivePlayers) = 2

(* ---------------- C38 ---------------- *)
\* no two players of the game are the same identity to handleAction's turn
\* check, which compares in lower case
NoCaseTwins(game) ==
    \A j, k \in 1..Len(game.players) :
       toLowerCase(game.players[j].userId) = toLowerCase(game.players[k].userId) => j = k

\* C38: no game holds two players that the turn check of handleAction takes
\* for the same, so an action sent under one joined identity is never
\* accepted on the turn of another joined player.
C38_OneIdentityPerPlayer ==
    /\ [](\A i \in GameSlots : NoCaseTwins(heap[i]))
    /\ [][\A c \in Channels, u \in Ids, action \in Actions :
             (ActionStep(c, u, action) /\ u \in userIds(Lookup(c)))
                => currentPlayer(Lookup(c)).userId = u]_vars

\* what addPlayer's duplicate check gives: the identities of a game are
\* pairwise different as strings
C38_ExactIdentitiesDiffer ==
    \A i \in GameSlots :
       \A j, k \in 1..Len(heap[i].players) :
          heap[i].players[j].userId = heap[i].players[k].userId => j = k

(* ---------------- C39 ---------------- *)
\* the suspended call k acted on the Game that its channel still registers
ActedOnRegistered(k) == games[pending[k].channelId] = pending[k].game

\* C39: a handleAction call removes from the registry only the game it acted
\* on: a game that another operation registered on the channel while the
\* call was suspended in its callback is still registered, unchanged, when
\* the call completes.
C39_RemovesOnlyItsOwnGame ==
    [][\A k \in 1..Len(pending) :
          (HandleActionResume(k) /\ ~ActedOnRegistered(k))
             => /\ games'[pending[k].channelId] = games[pending[k].channelId]
                /\ heap'[games[pending[k].channelId]] = heap[games[pending[k].channelId]]]_vars

\* what holds: the completing call empties its channel's registry entry,
\* whichever Game it holds
C39_ChannelEntryRemoved ==
    [][\A k \in 1..Len(pending) :
          HandleActionResume(k) => games'[pending[k].channelId] = 0]_vars

(* ---------------- C31 ---------------- *)
\* the pending timeouts that were started for the Game of slot s
PendingTimeouts(s) == {t \in timers : t.game = s /\ t.timeout}

\* the Game a timer was started for is still active and its player holds the turn
StillItsTurn(t) ==
    /\ heap[t.game] /= Freed
    /\ heap[t.game].state = "active"
    /\ hasCurrentPlayer(heap[t.game])
    /\ currentPlayer(heap[t.game]).userId = t.userId

\* the timeout of record t fires and shoots
TimeoutShot(t) == TimeoutFires(t) /\ last'.op = "autoShoot"

\* C31: in the auto-shoot variant at most one turn timeout is pending for a
\* game at any time, and a timeout that fires shoots only if the game it was
\* started for is still active and the player it was started for still holds
\* the turn.
C31_TimerDiscipline ==
    /\ [](\A s \in Slots : Cardinality(PendingTimeouts(s)) <= 1)
    /\ [][\A t \in timers : TimeoutShot(t) => StillItsTurn(t)]_vars

\* C31, what holds: no Game object ever has two pending timeouts, and a
\* timeout shoots only for the player it was started for, on that player's
\* turn in the game that the channel holds when it fires.
C31_OnePendingPerGameObject ==
    /\ [](\A s \in Slots : Cardinality(PendingTimeouts(s)) <= 1)
    /\ [][\A t \in timers : TimeoutShot(t) => timeoutShoots(t)]_vars

(* ---------------- C32 ---------------- *)
\* a shot of the variant that finds the bullet and leaves two or more alive
EliminatingShotAuto(c, u) ==
    /\ handleActionErrorAuto(Lookup(c), u, "shoot") = "ok"
    /\ checkChamber(Lookup(c))
    /\ Len(Lookup(c).alivePlayers) >= 3
    /\ HandleActionAuto(c, u, "shoot")

\* the player that takes the rotation slot of the turn holder once the holder
\* is removed from alivePlayers, index 0 if that slot no longer exists
OldSlotOccupant(game) ==
    LET rest == SelectSeq(game.alivePlayers, LAMBDA r : r /= currentRef(game))
    IN rest[(game.currentTurnIndex % Len(rest)) + 1]

\* C32: in the auto-shoot variant, after an eliminating shot that leaves two
\* or more players alive the turn passes to the alive player who now occupies
\* the eliminated player's old rotation slot, wrapping to index 0, and
\* currentTurnIndex stays below the number of alive players.
C32_TurnAfterElimination ==
    [][\A c \in Channels, u \in Ids :
          EliminatingShotAuto(c, u) =>
             /\ currentRef(heap'[games'[c]]) = OldSlotOccupant(Lookup(c))
             /\ heap'[games'[c]].currentTurnIndex < Len(heap'[games'[c]].alivePlayers)]_vars

\* C32, what holds: after such a shot currentTurnIndex is below the number
\* of alive players, and the turn is with the player after the old slot's
\* new occupant.
C32_IndexWithinAlive ==
    [][\A c \in Channels, u \in Ids :
          EliminatingShotAuto(c, u) =>
             LET g == heap'[games'[c]]
                 rest == SelectSeq(Lookup(c).alivePlayers, LAMBDA r : r /= currentRef(Lookup(c)))
             IN /\ g.currentTurnIndex < Len(g.alivePlayers)
                /\ currentRef(g) = rest[((Lookup(c).currentTurnIndex + 1) % Len(rest)) + 1]]_vars

(* ---------------- C40 ---------------- *)
\* the interval of record t ticks and sends a countdown notification
CountdownNotifies(t) == CountdownTicks(t) /\ last'.cbMsg.kind = "countdown"

\* the player that holds the turn in the Game of record t is its player
HoldsTurn(t) ==
    hasCurrentPlayer(heap[t.game]) /\ currentPlayer(heap[t.game]).userId = t.userId

\* C40: in the auto-shoot variant a countdown notification is only emitted
\* for the player who holds the turn at that moment, by the interval of a
\* turn that is not yet resolved: its timeout is still pending.
C40_CountdownForTurnHolder ==
    [][\A t \in timers : CountdownNotifies(t) => t.timeout /\ HoldsTurn(t)]_vars

\* C40, what holds: a countdown notification is only emitted while the game
\* of the interval is active and has a turn timer, and the interval of the
\* timeout that the game holds notifies the turn holder.
C40_CountdownWhileActive ==
    [][\A t \in timers :
          CountdownNotifies(t) =>
             /\ heap[t.game].state = "active"
             /\ heap[t.game].turnTimer
             /\ (t.timeout /\ t.held /\ games[t.channelId] = t.game) => HoldsTurn(t)]_vars

====
